---- MODULE Spec2Model ----
(***************************************************************************)
(* The dead-links worker (worker/src/job.ts, worker/src/index.ts, and the  *)
(* job service of worker/src/services/job.service.ts): a job is created by *)
(* POST /jobs, then processJob runs as one asynchronous task               *)
(* per job: sitemap discovery, crawl of the root and internal pages, cap,  *)
(* batched link probes, aggregation.  One action is one run of the task    *)
(* between two awaits that wait on the outside world (a fetch, a browser   *)
(* call, a timer); JavaScript runs such a stretch without interruption.    *)
(***************************************************************************)
EXTENDS Integers, Sequences, FiniteSets, TLC

(***************************************************************************)
(* Bounds of the model.                                                    *)
(***************************************************************************)
\* Math.random() is drawn from the grid {0, 1/RandomGrid, ..., (RandomGrid-1)/RandomGrid}.
RandomGrid == 3
\* The most sitemap URLs waiting to be parsed that the site's answers build up.
MaxPending == 2
\* The most leaf URLs one candidate sitemap is let to return.
MaxLeaf == 2
\* The largest HTTP status code a response carries.
MaxStatusCode == 599
MaxReturned == 4
MaxElements == 3
MaxLines == 3
MaxCandidates == 3

(***************************************************************************)
(* Values.                                                                 *)
(***************************************************************************)
\* An optional field holds at most one value: {} is undefined, {v} is v.
Undefined == {}
Some(v) == {v}
\* new Date()
Now == "Date"

JobIds == {"job-1"}

RootUrl == "https://site.test/"
BadUrl == "not a url"
RootOrigin == "https://site.test"

RobotsUrl == "https://site.test/robots.txt"
SitemapXmlUrl == "https://site.test/sitemap.xml"
SitemapIndexUrl == "https://site.test/sitemap_index.xml"
NewsSitemapUrl == "https://site.test/news.xml"
SitemapUrls == {SitemapXmlUrl, SitemapIndexUrl, NewsSitemapUrl}

PageA == "https://site.test/a"
PageB == "https://site.test/b"
OtherPage == "https://other.test/x"
LeafUrls == {PageA, PageB, OtherPage}

\* new URL(u): the strings that parse.
ParsableUrls == {RootUrl, PageA, PageB, OtherPage} \cup SitemapUrls \cup {RobotsUrl}
UrlParses(u) == u \in ParsableUrls
\* new URL(u).origin
UrlOrigin(u) == IF u = OtherPage THEN "https://other.test" ELSE RootOrigin
\* new URL(path, baseUrl).href for the three paths the worker resolves
ResolveUrl(path, baseUrl) ==
  CASE path = "/robots.txt" /\ baseUrl = RootOrigin -> RobotsUrl
    [] path = "/sitemap.xml" /\ baseUrl = RootOrigin -> SitemapXmlUrl
    [] path = "/sitemap_index.xml" /\ baseUrl = RootOrigin -> SitemapIndexUrl

(***************************************************************************)
(* Sequences.                                                              *)
(***************************************************************************)
SeqsUpTo(S, n) == UNION {[1..k -> S] : k \in 0..n}
Range(s) == {s[i] : i \in DOMAIN s}
Includes(s, x) == x \in Range(s)
Min(a, b) == IF a < b THEN a ELSE b
Max(a, b) == IF a > b THEN a ELSE b
\* Array.prototype.slice(0, end) with JavaScript's negative end (counted from the back)
SliceTo(s, end) ==
  LET e == IF end < 0 THEN Max(Len(s) + end, 0) ELSE Min(end, Len(s))
  IN  SubSeq(s, 1, e)
\* Array.prototype.slice(start, end) for 0 <= start, end
Slice(s, start, end) == SubSeq(s, Min(start, Len(s)) + 1, Min(end, Len(s)))
\* Adding the elements of s to a Set that iterates as the sequence acc (insertion order)
RECURSIVE AddAll(_, _)
AddAll(acc, s) ==
  IF s = <<>> THEN acc
  ELSE AddAll(IF Includes(acc, Head(s)) THEN acc ELSE Append(acc, Head(s)), Tail(s))

(***************************************************************************)
(* Options.                                                                *)
(***************************************************************************)
DEFAULT_OPTIONS ==
  [followInternalLinks |-> TRUE, maxInternalPages |-> 10, maxLinksToCheck |-> 500,
   linkCheckConcurrency |-> 3, linkBatchDelayMs |-> 600, linkBatchJitterMs |-> 400,
   navigationDelayMs |-> 800, navigationJitterMs |-> 500]

\* { ...DEFAULT_OPTIONS, ...(options ?? {}) }: a key of options wins
normalizeOptions(options) == options @@ DEFAULT_OPTIONS

\* a jitter without its first line
jitterNoGuard(maxMs, k) == (k * (maxMs + 1)) \div RandomGrid
\* Math.floor(Math.random() * (maxMs + 1)) with Math.random() = k / RandomGrid
jitter(maxMs, k) == IF maxMs <= 0 THEN 0 ELSE (k * (maxMs + 1)) \div RandomGrid
RandomDraws == 0..(RandomGrid - 1)

\* The option objects submitted.
NoOptions == [k \in {} |-> 0]
OptionInputs ==
  { NoOptions,
    [linkCheckConcurrency |-> 2, linkBatchDelayMs |-> 5, linkBatchJitterMs |-> 2,
     maxInternalPages |-> -1],
    [linkCheckConcurrency |-> 0, followInternalLinks |-> FALSE],
    [maxLinksToCheck |-> -1, linkCheckConcurrency |-> 1],
    [maxLinksToCheck |-> 0, maxInternalPages |-> 1, navigationDelayMs |-> 3,
     navigationJitterMs |-> 1] }

\* The request bodies of POST /jobs.
Bodies ==
  {[url |-> RootUrl, options |-> o] : o \in OptionInputs}
  \cup { [url |-> RootUrl],
         [url |-> BadUrl],
         [url |-> RootUrl, maxLinksToCheck |-> 1, linkBatchJitterMs |-> 0,
          options |-> [maxLinksToCheck |-> 2]],
         [url |-> ""],
         [options |-> [maxLinksToCheck |-> 2]] }

(***************************************************************************)
(* The network: what a fetch can end in.                                   *)
(***************************************************************************)
\* fetchText's null
Null == {}

\* What fetch(url) followed by response.text() ends in: fetch rejects (timeout,
\* DNS, TLS, an unparsable URL), or a response with a status code whose body is
\* read (Some(text)) or cannot be read (Undefined).
FetchRejected == [kind |-> "reject", error |-> "TypeError: fetch failed"]
FetchResponse(status, body) == [kind |-> "response", status |-> status, body |-> body]
\* response.ok
ResponseOk(status) == status >= 200 /\ status <= 299
BodyUnreadable == "TypeError: terminated"

\* The outcomes for the bodies `texts`: a rejection, a 404, a 200 whose body
\* cannot be read, a 200 with each body.
FetchOutcomes(texts) ==
  {FetchRejected, FetchResponse(404, Some("Not Found")), FetchResponse(200, Undefined)}
  \cup {FetchResponse(200, Some(t)) : t \in texts}

\* How a call ends: it returns a value or throws.
Returned(value) == [kind |-> "return", value |-> value]
Thrown(error) == [kind |-> "throw", error |-> error]

\* fetchText's try block
fetchTextTry(outcome) ==
  IF outcome.kind = "reject" THEN Thrown(outcome.error)
  ELSE IF ~ResponseOk(outcome.status) THEN Returned(Null)
  ELSE IF outcome.body = Undefined THEN Thrown(BodyUnreadable)
  ELSE Returned(outcome.body)

\* a fetchText without its catch block
fetchTextUncaught(outcome) == fetchTextTry(outcome)

\* fetchText: try { ... } catch { return null }
fetchText(outcome) ==
  IF fetchTextTry(outcome).kind = "throw" THEN Returned(Null) ELSE fetchTextTry(outcome)

\* robots.txt as its lines; a line is the text before the first colon and the rest.
\* `cr`: the file ends its lines with "\r\n", so the line that split("\n")
\* yields ends with "\r".
RobotsLine(name, value) == [name |-> name, value |-> value, cr |-> FALSE]
RobotsLineCR(name, value) == [name |-> name, value |-> value, cr |-> TRUE]
RobotsTexts ==
  { <<>>,
    <<RobotsLine("User-agent", "*"), RobotsLine("Disallow", "")>>,
    <<RobotsLine("User-agent", "*"), RobotsLine("Sitemap", NewsSitemapUrl)>>,
    <<RobotsLine("sitemap", SitemapXmlUrl), RobotsLine("Sitemap", NewsSitemapUrl)>>,
    <<RobotsLineCR("User-agent", "*"), RobotsLineCR("Sitemap", NewsSitemapUrl)>> }

ToLower(s) == IF s \in {"Sitemap", "SITEMAP", "sitemap"} THEN "sitemap" ELSE s

\* line.match(/^Sitemap:\s*(.+)$/i): the name is "sitemap" in any case and at
\* least one character follows up to the end of the line; "." matches no "\r"
\* and "$" only the end of the line, so a line that ends with "\r" does not match
LineMatches(l) == ToLower(l.name) = "sitemap" /\ l.value # "" /\ ~l.cr

\* match[1].trim() pushed for every matching line
RECURSIVE SitemapLines(_)
SitemapLines(lines) ==
  IF lines = <<>> THEN <<>>
  ELSE LET l == Head(lines)
       IN  (IF LineMatches(l) THEN <<l.value>> ELSE <<>>)
           \o SitemapLines(Tail(lines))

\* getSitemapUrlsFromRobots, given fetchText's answer
getSitemapUrlsFromRobots(robotsTxt) ==
  IF robotsTxt = Null THEN <<>>
  ELSE LET text == CHOOSE t \in robotsTxt : TRUE
       IN  IF text = <<>> THEN <<>> ELSE SitemapLines(text)

\* a candidate list that gets the well-known paths whether present or not
RECURSIVE AddCommonPathsAlways(_, _, _)
AddCommonPathsAlways(sitemapUrls, paths, baseUrl) ==
  IF paths = <<>> THEN sitemapUrls
  ELSE AddCommonPathsAlways(Append(sitemapUrls, ResolveUrl(Head(paths), baseUrl)),
                            Tail(paths), baseUrl)

\* discoverFromSitemap's candidate list: the robots.txt entries, then each
\* well-known path that is not yet in the list
RECURSIVE AddCommonPaths(_, _, _)
AddCommonPaths(sitemapUrls, paths, baseUrl) ==
  IF paths = <<>> THEN sitemapUrls
  ELSE LET url == ResolveUrl(Head(paths), baseUrl)
       IN  AddCommonPaths(IF Includes(sitemapUrls, url) THEN sitemapUrls
                          ELSE Append(sitemapUrls, url),
                          Tail(paths), baseUrl)

commonSitemapPaths == <<"/sitemap.xml", "/sitemap_index.xml">>

\* A sitemap document as the entries its two patterns match, in document order.
XmlDoc(sitemapLocs, urlLocs) == [sitemapLocs |-> sitemapLocs, urlLocs |-> urlLocs]
IndexDocs ==
  { XmlDoc(<<NewsSitemapUrl>>, <<>>),
    XmlDoc(<<SitemapXmlUrl, NewsSitemapUrl>>, <<>>),
    XmlDoc(<<SitemapIndexUrl>>, <<PageA>>) }
UrlsetDocs ==
  { XmlDoc(<<>>, <<>>),
    XmlDoc(<<>>, <<PageA>>),
    XmlDoc(<<>>, <<OtherPage>>),
    XmlDoc(<<>>, <<PageB, PageA>>) }
XmlDocs == IndexDocs \cup UrlsetDocs

\* parseSitemap, one call at a time.  The calls that are still to run are kept
\* as the sitemap URLs still to be parsed, innermost first; `xml` is fetchText's
\* answer for the first of them.
\* childSitemaps.length > 0
IsIndex(xml) == xml # Null /\ Len((CHOOSE d \in xml : TRUE).sitemapLocs) > 0

\* a parseSitemap that gives up on its siblings when a document cannot be fetched
PendingAfterAborting(pending, xml) ==
  IF xml = Null THEN <<>>
  ELSE IF IsIndex(xml) THEN (CHOOSE d \in xml : TRUE).sitemapLocs \o Tail(pending)
  ELSE Tail(pending)

\* a parseSitemap that does not follow an index entry naming the index itself
PendingAfterNoRepeat(pending, xml) ==
  IF IsIndex(xml)
  THEN SelectSeq((CHOOSE d \in xml : TRUE).sitemapLocs, LAMBDA u : u # Head(pending))
       \o Tail(pending)
  ELSE Tail(pending)

\* if (!xml) return []; an index puts its children in front of its siblings
PendingAfter(pending, xml) ==
  IF IsIndex(xml) THEN (CHOOSE d \in xml : TRUE).sitemapLocs \o Tail(pending)
  ELSE Tail(pending)

\* a urlset adds its entries to what the candidate returns
LeafAfter(leaf, xml) ==
  IF xml # Null /\ ~IsIndex(xml) THEN leaf \o (CHOOSE d \in xml : TRUE).urlLocs
  ELSE leaf

\* parseSitemap as the source writes it, a function that calls itself, on a
\* site whose answers are `world`; it has a value where the calls end.
RECURSIVE parseSitemap(_, _)
RECURSIVE parseChildren(_, _)
parseSitemap(world, sitemapUrl) ==
  LET xml == world[sitemapUrl]
  IN  IF xml = Null THEN <<>>
      ELSE IF IsIndex(xml) THEN parseChildren(world, (CHOOSE d \in xml : TRUE).sitemapLocs)
      ELSE (CHOOSE d \in xml : TRUE).urlLocs
\* for (const childUrl of childSitemaps) urls.push(...await parseSitemap(childUrl))
parseChildren(world, childSitemaps) ==
  IF childSitemaps = <<>> THEN <<>>
  ELSE parseSitemap(world, Head(childSitemaps)) \o parseChildren(world, Tail(childSitemaps))

\* discoverFromSitemap's loop after the answer `xml`, for its locals s: while
\* calls are pending the candidate is still being parsed; when none is, its
\* parseSitemap has returned, its URLs go into the Set and the next candidate
\* is fetched; after the last candidate nothing is pending.  lastNull remembers
\* that the answer was null.
AfterAnswer(s, xml) ==
  IF PendingAfter(s.pending, xml) # <<>>
  THEN [s EXCEPT !.pending = PendingAfter(s.pending, xml),
                 !.leaf = LeafAfter(s.leaf, xml),
                 !.lastNull = xml = Null]
  ELSE [cands |-> IF s.cands = <<>> THEN <<>> ELSE Tail(s.cands),
        pending |-> IF s.cands = <<>> THEN <<>> ELSE <<Head(s.cands)>>,
        leaf |-> <<>>,
        urls |-> AddAll(s.urls, LeafAfter(s.leaf, xml)),
        lastNull |-> xml = Null]

(***************************************************************************)
(* URLs the crawl meets.                                                   *)
(***************************************************************************)
Ext1 == "https://ext.test/1"
MailLink == "mailto:team@site.test"

\* new URL(u).protocol and new URL(u).host
UrlProtocol(u) == IF u = MailLink THEN "mailto:" ELSE "https:"
UrlHost(u) ==
  CASE u = Ext1 -> "ext.test"
    [] u = OtherPage -> "other.test"
    [] u = MailLink -> ""
    [] OTHER -> "site.test"
CrawlParses(u) == UrlParses(u) \/ u \in {Ext1, MailLink}
\* new URL(rootUrl) with hash = "" : the job URLs of the model carry no fragment
NormalizedHref(u) == u

\* What page.evaluate returns for a page: the two lists built from its anchors.
PageContent(abs, internal) == [absoluteLinks |-> abs, internalLinks |-> internal]
PageContents ==
  { PageContent(<<>>, <<>>),
    PageContent(<<Ext1>>, <<>>),
    PageContent(<<PageA, Ext1>>, <<PageA>>),
    PageContent(<<RootUrl, Ext1, PageA>>, <<RootUrl, PageA>>) }
PageTitles == {"Home"}

(***************************************************************************)
(* Link probes.                                                            *)
(***************************************************************************)
\* What a HEAD or GET request of checkLink ends in: a status code, or "reject"
\* (timeout, DNS failure, connection refused, TLS error).
Responded(statusCode) == [kind |-> "response", status |-> statusCode]
Rejected(error) == [kind |-> "reject", error |-> error]
FetchFailed == "TypeError: fetch failed"
HeadOutcomes == {Responded(200), Responded(404), Responded(405), Rejected(FetchFailed)}
GetOutcomes == {Responded(200), Responded(404), Rejected(FetchFailed)}

\* an isAlive that takes 400 for a redirect and forgets 403
isAliveOffByOne(statusCode) ==
  \/ statusCode >= 200 /\ statusCode <= 400
  \/ statusCode = 401

\* lib/http.ts and job.ts: 2xx and 3xx, and the two auth-required codes
isAlive(statusCode) ==
  \/ statusCode >= 200 /\ statusCode < 400
  \/ statusCode = 401 \/ statusCode = 403

\* a catch block that reports the link without what was thrown
LinkErrorNoText(url, error) ==
  [url |-> url, status |-> "error", statusCode |-> Undefined, error |-> Some("")]
\* a return that reports a response and an error at once
LinkOkWithError(url, statusCode) ==
  [url |-> url, status |-> IF isAlive(statusCode) THEN "alive" ELSE "dead",
   statusCode |-> Some(statusCode), error |-> Some("")]

\* checkLink's two return statements
LinkOk(url, statusCode) ==
  [url |-> url, status |-> IF isAlive(statusCode) THEN "alive" ELSE "dead",
   statusCode |-> Some(statusCode), error |-> Undefined]
LinkError(url, error) ==
  [url |-> url, status |-> "error", statusCode |-> Undefined, error |-> Some(error)]

\* One checkLink call of the running batch: waiting for HEAD, waiting for GET, returned.
ProbeHead == [stage |-> "head", result |-> Undefined]
ProbeGet == [stage |-> "get", result |-> Undefined]
ProbeDone(r) == [stage |-> "done", result |-> Some(r)]
\* the request a call in that stage waits for
PendingMethod(stage) == IF stage = "head" THEN "HEAD" ELSE "GET"

\* a retry for every client or server error
RetryOnAnyError(statusCode) == statusCode >= 400
\* if (response.status === 405): retry with GET
RetryWithGet(statusCode) == statusCode = 405

\* checkLink(url) when the request it waits for in `stage` ends in `outcome`:
\* a rejection is caught, a HEAD answered 405 is followed by a GET, any other
\* response is classified.
AfterRequest(stage, url, outcome) ==
  IF outcome.kind = "reject"
  THEN ProbeDone(LinkError(url, outcome.error))
  ELSE IF stage = "head" /\ RetryWithGet(outcome.status)
  THEN ProbeGet
  ELSE ProbeDone(LinkOk(url, outcome.status))

\* links.slice(i, i + concurrency + 1): a batch one probe too long
BatchOfOneMore(links, i, concurrency) == Slice(links, i, i + concurrency + 1)
\* if (i + concurrency <= links.length): a sleep after the last full batch too
MoreBatchesOrEqual(links, i, concurrency) == i + concurrency <= Len(links)

\* const concurrency = Math.max(1, options.linkCheckConcurrency)
Concurrency(options) == Max(1, options.linkCheckConcurrency)
\* links.slice(i, i + concurrency)
BatchOf(links, i, concurrency) == Slice(links, i, i + concurrency)
\* if (i + concurrency < links.length): a batch follows, sleep first
MoreBatches(links, i, concurrency) == i + concurrency < Len(links)

\* if (links.length > max) links = links.slice(0, max)
CapLinks(links, maxLinksToCheck) ==
  IF Len(links) > maxLinksToCheck THEN SliceTo(links, maxLinksToCheck) ELSE links

\* a tally that also counts the links that answered with another status
TallyNotAlive(results, status) ==
  Cardinality({i \in DOMAIN results :
                 results[i].status = status \/ results[i].status # "alive"})

\* results.filter((r) => r.status === status).length
Tally(results, status) == Cardinality({i \in DOMAIN results : results[i].status = status})

\* job.result = { ... }
JobResult(title, discoveryMethod, pagesCrawledUrls, results) ==
  [title |-> title, discoveryMethod |-> discoveryMethod,
   pagesCrawled |-> Len(pagesCrawledUrls), pagesCrawledUrls |-> pagesCrawledUrls,
   linksChecked |-> Len(results),
   alive |-> Tally(results, "alive"), dead |-> Tally(results, "dead"),
   errors |-> Tally(results, "error"), links |-> results]

(***************************************************************************)
(* The job record.                                                         *)
(***************************************************************************)
\* createJob's job literal
NewJob(id, url, options) ==
  [id |-> id, url |-> url, options |-> normalizeOptions(options), status |-> "pending",
   result |-> Undefined, error |-> Undefined, createdAt |-> Now, completedAt |-> Undefined]

\* a processJob that forgets job.status = "processing"
ProcessingNotSet(job) == job
\* a finally block that does not run after catch
FailedNoCompletedAt(job, error) ==
  [job EXCEPT !.status = "failed", !.error = Some(error)]

\* processJob's first statement
Processing(job) == [job EXCEPT !.status = "processing"]
\* a processJob observed after job.status = "completed" and before job.result
CompletedWithoutResult(job, result) ==
  [job EXCEPT !.status = "completed", !.completedAt = Some(Now)]
\* the end of processJob's try block, then finally
Completed(job, result) ==
  [job EXCEPT !.result = Some(result), !.status = "completed", !.completedAt = Some(Now)]
\* processJob's catch block, then finally
Failed(job, error) ==
  [job EXCEPT !.status = "failed", !.error = Some(error), !.completedAt = Some(Now)]

\* const extraInternalPages = sitemapPages.filter(same origin).slice(0, maxInternalPages)
ExtraInternalPages(sitemapPages, baseUrl, maxInternalPages) ==
  SliceTo(SelectSeq(sitemapPages, LAMBDA u : UrlParses(u) /\ UrlOrigin(u) = baseUrl),
          maxInternalPages)

\* discoverFromPages' internalToVisit: the root page's internal links, then the
\* extra pages, as a Set; same host and http(s); not the root; the first maxInternalPages
InternalToVisit(rootUrl, internalLinks, extraInternalPages, maxInternalPages) ==
  LET candidates == AddAll(AddAll(<<>>, internalLinks), extraInternalPages)
      sameHost == SelectSeq(candidates,
                    LAMBDA u : /\ CrawlParses(u)
                               /\ UrlProtocol(u) \in {"http:", "https:"}
                               /\ UrlHost(u) = UrlHost(rootUrl))
      notRoot == SelectSeq(sameHost, LAMBDA u : u # NormalizedHref(rootUrl))
  IN  SliceTo(notRoot, maxInternalPages)

(***************************************************************************)
(* State.                                                                  *)
(***************************************************************************)
VARIABLES
  jobs,       \* the jobs Map: id -> Job
  responses,  \* the answers POST /jobs has sent
  statusLog,  \* per job, every value assigned to job.status, in order (history)
  pc,         \* per job, the await its processJob task is suspended at, or "done"
  sm,         \* per job, discoverFromSitemap's and parseSitemap's locals
  pj,         \* per job, processJob's locals
  cr,         \* per job, discoverFromPages' locals
  ck,         \* per job, checkLinks' locals
  timer,      \* per job, the sleep() in progress, in ms
  browser,    \* per job, the browsing context and page its crawl has opened
  store,      \* the rows of the worker.jobs table: id -> row
  notified,   \* per stored job, the callbacks of startProcessing invoked (history)
  lib         \* the call of a library function, or the parseSitemap call, under study

workerVars ==
  <<jobs, responses, statusLog, pc, sm, pj, cr, ck, timer, browser, store, notified>>
vars == <<workerVars, lib>>

EmptyFn == [x \in {} |-> x]

NoSm == [cands |-> <<>>, pending |-> <<>>, leaf |-> <<>>, urls |-> <<>>,
         lastNull |-> FALSE]
NoPj == [discoveryMethod |-> "sitemap", sitemapPages |-> <<>>, title |-> "",
         pagesCrawledUrls |-> <<>>]
NoCr == [extraInternalPages |-> Undefined, current |-> "", atRoot |-> FALSE,
         title |-> "", allLinks |-> <<>>, crawledPages |-> <<>>, toVisit |-> <<>>,
         thrown |-> Undefined]
NoCk == [links |-> <<>>, i |-> 0, results |-> <<>>, batch |-> <<>>, sleeps |-> 0]
NoBrowser == [context |-> "none", page |-> "none"]

\* No function of the library has been called.
NoLib == [fn |-> "none"]

\* The worker has started and no job has been created.
NoJobs ==
  /\ jobs = EmptyFn
  /\ responses = {}
  /\ statusLog = EmptyFn
  /\ pc = EmptyFn
  /\ sm = EmptyFn
  /\ pj = EmptyFn
  /\ cr = EmptyFn
  /\ ck = EmptyFn
  /\ timer = EmptyFn
  /\ browser = EmptyFn
  /\ store = EmptyFn
  /\ notified = EmptyFn

Init == NoJobs /\ lib = NoLib

Created == DOMAIN jobs

(***************************************************************************)
(* POST /jobs, createJob, and processJob up to its first await.            *)
(***************************************************************************)
\* const { url, options, ...rest } = req.body
BodyRest(body) == [k \in DOMAIN body \ {"url", "options"} |-> body[k]]
\* { ...rest, ...options }
MergedOptions(body) ==
  (IF "options" \in DOMAIN body THEN body.options ELSE NoOptions) @@ BodyRest(body)
\* a handler that only looks whether the body has a url property
UrlMissingOnlyAbsent(body) == "url" \notin DOMAIN body
\* !url
UrlMissing(body) == IF "url" \in DOMAIN body THEN body.url = "" ELSE TRUE

\* if (!url) { res.status(400).json({ error: "url is required" }); return; }
PostJobsRejected(body) ==
  /\ UrlMissing(body)
  /\ responses' = responses \cup {[code |-> 400, error |-> "url is required"]}
  /\ UNCHANGED <<jobs, statusLog, store, notified, pc, sm, pj, cr, ck, timer, browser>>
  /\ UNCHANGED lib

InvalidUrl == "TypeError: Invalid URL"

\* The job as processJob leaves it when it first suspends or, for a URL that
\* new URL() rejects, when it returns.
Started(job) ==
  IF UrlParses(job.url) THEN Processing(job) ELSE Failed(Processing(job), InvalidUrl)

\* processJob(job) from its call up to the fetch of robots.txt
RunToFirstAwait(id, url, options) ==
  LET job == Started(NewJob(id, url, options))
  IN  /\ jobs' = jobs @@ (id :> job)
      /\ statusLog' = statusLog @@
           (id :> <<NewJob(id, url, options).status,
                    Processing(NewJob(id, url, options)).status>>
                  \o (IF UrlParses(url) THEN <<>> ELSE <<job.status>>))
      /\ pc' = pc @@ (id :> IF UrlParses(url) THEN "robots" ELSE "done")
      /\ sm' = sm @@ (id :> NoSm)
      /\ pj' = pj @@ (id :> NoPj)
      /\ cr' = cr @@ (id :> NoCr)
      /\ ck' = ck @@ (id :> NoCk)
      /\ timer' = timer @@ (id :> Undefined)
      /\ browser' = browser @@ (id :> NoBrowser)

\* createJob(url, options): jobs.set, then processJob(job), then return job.
createJob(id, url, options) ==
  /\ RunToFirstAwait(id, url, options)
  /\ UNCHANGED <<store, notified>>

\* const job = createJob(url, mergedOptions); res.status(202).json({ id, status })
PostJobsAccepted(id, body) ==
  /\ ~UrlMissing(body)
  /\ id \notin Created
  /\ createJob(id, body.url, MergedOptions(body))
  /\ responses' = responses \cup {[code |-> 202, id |-> id, status |-> jobs'[id].status]}
  /\ UNCHANGED lib

(***************************************************************************)
(* The job service: the jobs table and the callbacks of startProcessing.   *)
(***************************************************************************)
\* db.insert(jobs).values(data).returning(): the columns' defaults fill the rest
InsertedRow(id, data) ==
  [id |-> id, userId |-> data.userId, url |-> data.url, status |-> "pending",
   options |-> data.options, result |-> Null, error |-> Null,
   createdAt |-> Now, completedAt |-> Null]

\* db.update(jobs).set(data).where(eq(jobs.id, id))
updateJob(row, data) == data @@ row

\* an onFailed that writes the error and leaves the status
onFailedKeepsStatus(row, error) ==
  updateJob(row, [error |-> Some(error), completedAt |-> Some(Now)])

\* the callbacks startProcessing hands to processJob
onProcessing(row) == updateJob(row, [status |-> "processing"])
onCompleted(row, result) ==
  updateJob(row, [status |-> "completed", result |-> Some(result),
                  completedAt |-> Some(Now)])
onFailed(row, error) ==
  updateJob(row, [status |-> "failed", error |-> Some(error),
                  completedAt |-> Some(Now)])

\* The processor reports a job of the service as failed.
NotifyFailed(j, error) ==
  IF j \in DOMAIN store
  THEN /\ store' = [store EXCEPT ![j] = onFailed(@, error)]
       /\ notified' = [notified EXCEPT ![j] = Append(@, "onFailed")]
  ELSE UNCHANGED <<store, notified>>

\* The processor reports a job of the service as completed.
NotifyCompleted(j, result) ==
  IF j \in DOMAIN store
  THEN /\ store' = [store EXCEPT ![j] = onCompleted(@, result)]
       /\ notified' = [notified EXCEPT ![j] = Append(@, "onCompleted")]
  ELSE UNCHANGED <<store, notified>>

\* The request bodies of the job service's POST /jobs.
ServiceBodies ==
  { [url |-> RootUrl, userId |-> "user-1"],
    [url |-> RootUrl, userId |-> "user-1", linkCheckConcurrency |-> 1,
     options |-> [followInternalLinks |-> FALSE]],
    [url |-> BadUrl, userId |-> "user-1"],
    [url |-> RootUrl],
    [url |-> RootUrl, userId |-> ""],
    [userId |-> "user-1"] }

\* const { url, userId, options, ...rest } = req.body ?? {}
ServiceBodyRest(body) == [k \in DOMAIN body \ {"url", "userId", "options"} |-> body[k]]
\* { ...rest, ...options }
ServiceMergedOptions(body) ==
  (IF "options" \in DOMAIN body THEN body.options ELSE NoOptions) @@ ServiceBodyRest(body)
\* !userId || typeof userId !== "string"
UserIdMissing(body) == IF "userId" \in DOMAIN body THEN body.userId = "" ELSE TRUE

\* the two 400 answers of the job service's POST /jobs
ServicePostJobsRejected(body) ==
  /\ UrlMissing(body) \/ UserIdMissing(body)
  /\ responses' = responses \cup
       {[code |-> 400,
         error |-> IF UrlMissing(body) THEN "url is required" ELSE "userId is required"]}
  /\ UNCHANGED <<jobs, statusLog, store, notified, pc, sm, pj, cr, ck, timer, browser>>
  /\ UNCHANGED lib

\* startProcessing(job): processJob(jobData, callbacks) runs up to its first
\* await; it reports onProcessing when it starts, and onFailed when the URL
\* does not parse.
startProcessing(row) ==
  /\ RunToFirstAwait(row.id, row.url, row.options)
  /\ store' = store @@
       (row.id :> IF UrlParses(row.url) THEN onProcessing(row)
                  ELSE onFailed(onProcessing(row), InvalidUrl))
  /\ notified' = notified @@
       (row.id :> <<"onProcessing">> \o
                  (IF UrlParses(row.url) THEN <<>> ELSE <<"onFailed">>))

\* jobService.createJob(dto): the row is inserted, startProcessing(job) is
\* called and not awaited, and the DTO of the inserted row is answered with 202.
ServicePostJobsAccepted(id, body) ==
  /\ ~UrlMissing(body) /\ ~UserIdMissing(body)
  /\ id \notin Created
  /\ LET job == InsertedRow(id, [url |-> body.url, userId |-> body.userId,
                                 options |-> normalizeOptions(ServiceMergedOptions(body))])
     IN  /\ startProcessing(job)
         /\ responses' = responses \cup {[code |-> 202, id |-> job.id, status |-> job.status]}
  /\ UNCHANGED lib

(***************************************************************************)
(* Leaving processJob.                                                     *)
(***************************************************************************)
ClearLocals(j) ==
  /\ sm' = [sm EXCEPT ![j] = NoSm]
  /\ pj' = [pj EXCEPT ![j] = NoPj]
  /\ cr' = [cr EXCEPT ![j] = NoCr]
  /\ ck' = [ck EXCEPT ![j] = NoCk]
  /\ timer' = [timer EXCEPT ![j] = Undefined]

\* a catch block that writes to a job variable shared by all processJob calls
ThrowShared(j, error) ==
  /\ jobs' = [k \in DOMAIN jobs |-> Failed(jobs[k], error)]
  /\ statusLog' = [statusLog EXCEPT ![j] = Append(@, jobs'[j].status)]
  /\ pc' = [pc EXCEPT ![j] = "done"]
  /\ ClearLocals(j)
  /\ NotifyFailed(j, error)

\* catch (error) { job.status = "failed"; job.error = String(error) } finally { ... }
Throw(j, error) ==
  /\ jobs' = [jobs EXCEPT ![j] = Failed(@, error)]
  /\ statusLog' = [statusLog EXCEPT ![j] = Append(@, jobs'[j].status)]
  /\ pc' = [pc EXCEPT ![j] = "done"]
  /\ ClearLocals(j)
  /\ NotifyFailed(j, error)

\* job.result = { ... }; job.status = "completed"; finally { ... }
Complete(j, title, discoveryMethod, pagesCrawledUrls, results) ==
  /\ jobs' = [jobs EXCEPT
       ![j] = Completed(@, JobResult(title, discoveryMethod, pagesCrawledUrls, results))]
  /\ statusLog' = [statusLog EXCEPT ![j] = Append(@, jobs'[j].status)]
  /\ pc' = [pc EXCEPT ![j] = "done"]
  /\ ClearLocals(j)
  /\ NotifyCompleted(j, JobResult(title, discoveryMethod, pagesCrawledUrls, results))

(***************************************************************************)
(* checkLinks: the loop head, entered with the locals ck1.                 *)
(***************************************************************************)
\* for (...; i < links.length; ...) { batch = links.slice(i, i + concurrency);
\*   await Promise.all(batch.map(checkLink)) ... }  return results
\* Every checkLink of the batch runs up to its HEAD fetch before the await.
EnterBatchLoop(j, ck1, title, discoveryMethod, pagesCrawledUrls) ==
  IF ck1.i < Len(ck1.links)
  THEN /\ ck' = [ck EXCEPT ![j] =
            [ck1 EXCEPT !.batch =
               [n \in DOMAIN BatchOf(ck1.links, ck1.i, Concurrency(jobs[j].options))
                  |-> ProbeHead]]]
       /\ pc' = [pc EXCEPT ![j] = "probing"]
       /\ pj' = [pj EXCEPT ![j] = [@ EXCEPT !.title = title,
                                            !.discoveryMethod = discoveryMethod,
                                            !.sitemapPages = <<>>,
                                            !.pagesCrawledUrls = pagesCrawledUrls]]
       /\ sm' = [sm EXCEPT ![j] = NoSm]
       /\ cr' = [cr EXCEPT ![j] = NoCr]
       /\ timer' = [timer EXCEPT ![j] = Undefined]
       /\ UNCHANGED <<jobs, statusLog, store, notified>>
  ELSE Complete(j, title, discoveryMethod, pagesCrawledUrls, ck1.results)

(***************************************************************************)
(* discoverFromSitemap.                                                    *)
(***************************************************************************)
\* a branch on sitemapPages.length >= 0: never "scrape"
DiscoveryMethodNeverScrape(sitemapPages) ==
  IF Len(sitemapPages) >= 0 THEN "sitemap" ELSE "scrape"

\* let discoveryMethod = "sitemap"; if (sitemapPages.length > 0) ... else
\* discoveryMethod = "scrape"
DiscoveryMethodFor(sitemapPages) ==
  IF Len(sitemapPages) > 0 THEN "sitemap" ELSE "scrape"

\* a processJob that calls discoverFromPages while a sitemap request is pending
StartCrawlEarly(j, sitemapPages) ==
  /\ pj' = [pj EXCEPT ![j] =
       [@ EXCEPT !.discoveryMethod = DiscoveryMethodFor(sitemapPages),
                 !.sitemapPages = sitemapPages]]
  /\ cr' = [cr EXCEPT ![j] = [NoCr EXCEPT !.extraInternalPages = Some(<<>>)]]
  /\ sm' = [sm EXCEPT ![j] = [@ EXCEPT !.pending = <<Head(sm[j].pending)>>]]
  /\ pc' = [pc EXCEPT ![j] = "newContext"]

\* processJob after discoverFromSitemap has returned sitemapPages: the branch on
\* sitemapPages.length, then discoverFromPages up to browser.newContext().
StartCrawl(j, sitemapPages) ==
  LET baseUrl == UrlOrigin(jobs[j].url)
      found == DiscoveryMethodFor(sitemapPages) = "sitemap"
  IN  /\ pj' = [pj EXCEPT ![j] =
           [@ EXCEPT !.discoveryMethod = DiscoveryMethodFor(sitemapPages),
                     !.sitemapPages = sitemapPages]]
      /\ cr' = [cr EXCEPT ![j] =
           [NoCr EXCEPT !.extraInternalPages =
              IF found
              THEN Some(ExtraInternalPages(sitemapPages, baseUrl,
                                           jobs[j].options.maxInternalPages))
              ELSE Undefined]]
      /\ sm' = [sm EXCEPT ![j] = NoSm]
      /\ pc' = [pc EXCEPT ![j] = "newContext"]

\* robots.txt is answered: getSitemapUrlsFromRobots returns, the well-known paths
\* are added, and parseSitemap of the first candidate runs up to its fetch.
RobotsResponds(j) ==
  /\ j \in Created /\ pc[j] = "robots"
  /\ \E outcome \in FetchOutcomes(RobotsTexts) :
       LET robotsTxt == fetchText(outcome).value
           sitemapUrls == AddCommonPaths(getSitemapUrlsFromRobots(robotsTxt),
                                         commonSitemapPaths, UrlOrigin(jobs[j].url))
       IN  sm' = [sm EXCEPT ![j] = [cands |-> Tail(sitemapUrls),
                                    pending |-> <<Head(sitemapUrls)>>,
                                    leaf |-> <<>>, urls |-> <<>>,
                                    lastNull |-> robotsTxt = Null]]
  /\ pc' = [pc EXCEPT ![j] = "sitemap"]
  /\ UNCHANGED <<jobs, responses, statusLog, store, notified, pj, cr, ck, timer, browser>>
  /\ UNCHANGED lib

\* A sitemap document is answered: discoverFromSitemap goes on with the next
\* pending call or the next candidate, or returns its Set as an array.
SitemapResponds(j) ==
  /\ j \in Created /\ pc[j] = "sitemap"
  /\ \E outcome \in FetchOutcomes(XmlDocs) :
       LET xml == fetchText(outcome).value
           s == AfterAnswer(sm[j], xml)
       IN  /\ Len(PendingAfter(sm[j].pending, xml)) <= MaxPending
           /\ Len(LeafAfter(sm[j].leaf, xml)) <= MaxLeaf
           /\ IF s.pending # <<>>
              THEN /\ sm' = [sm EXCEPT ![j] = s]
                   /\ UNCHANGED <<pc, pj, cr>>
              ELSE StartCrawl(j, s.urls)
  /\ UNCHANGED <<jobs, responses, statusLog, store, notified, ck, timer, browser>>
  /\ UNCHANGED lib

(***************************************************************************)
(* discoverFromPages.                                                      *)
(***************************************************************************)
\* await browser.newContext(...); sitemapPages is not read after this point
BrowserNewContext(j) ==
  /\ j \in Created /\ pc[j] = "newContext"
  /\ \/ /\ browser' = [browser EXCEPT ![j].context = "open"]
        /\ pc' = [pc EXCEPT ![j] = "addInitScript"]
        /\ pj' = [pj EXCEPT ![j].sitemapPages = <<>>]
        /\ UNCHANGED <<jobs, statusLog, store, notified, sm, cr, ck, timer>>
     \/ /\ Throw(j, "Error: browser.newContext")
        /\ UNCHANGED browser
  /\ UNCHANGED responses
  /\ UNCHANGED lib

\* await context.addInitScript(...): outside the try, so a failure leaves the
\* context open
ContextAddInitScript(j) ==
  /\ j \in Created /\ pc[j] = "addInitScript"
  /\ \/ /\ pc' = [pc EXCEPT ![j] = "route"]
        /\ UNCHANGED <<jobs, statusLog, store, notified, sm, pj, cr, ck, timer>>
     \/ Throw(j, "Error: context.addInitScript")
  /\ UNCHANGED <<responses, browser>>
  /\ UNCHANGED lib

\* await context.route(...)
ContextRoute(j) ==
  /\ j \in Created /\ pc[j] = "route"
  /\ \/ /\ pc' = [pc EXCEPT ![j] = "newPage"]
        /\ UNCHANGED <<jobs, statusLog, store, notified, sm, pj, cr, ck, timer>>
     \/ Throw(j, "Error: context.route")
  /\ UNCHANGED <<responses, browser>>
  /\ UNCHANGED lib

\* const page = await context.newPage(); then try { extractLinks(rootUrl) } runs
\* up to page.goto
ContextNewPage(j) ==
  /\ j \in Created /\ pc[j] = "newPage"
  /\ \/ /\ browser' = [browser EXCEPT ![j].page = "open"]
        /\ cr' = [cr EXCEPT ![j] = [@ EXCEPT !.current = jobs[j].url, !.atRoot = TRUE]]
        /\ pc' = [pc EXCEPT ![j] = "goto"]
        /\ UNCHANGED <<jobs, statusLog, store, notified, sm, pj, ck, timer>>
     \/ /\ Throw(j, "Error: context.newPage")
        /\ UNCHANGED browser
  /\ UNCHANGED responses
  /\ UNCHANGED lib

\* a loop that navigates to the next page without the sleep
NextInternalPageNoSleep(j, cr1, k) ==
  IF cr1.toVisit # <<>>
  THEN /\ cr' = [cr EXCEPT ![j] = [cr1 EXCEPT !.current = Head(cr1.toVisit),
                                             !.toVisit = Tail(cr1.toVisit),
                                             !.atRoot = FALSE]]
       /\ timer' = [timer EXCEPT ![j] = Undefined]
       /\ pc' = [pc EXCEPT ![j] = "goto"]
  ELSE /\ cr' = [cr EXCEPT ![j] = cr1]
       /\ timer' = [timer EXCEPT ![j] = Undefined]
       /\ pc' = [pc EXCEPT ![j] = "pageClose"]

\* The for loop over internalToVisit, entered with the locals cr1: sleep before
\* the next page, or leave the try block for finally { await page.close() ... }
NextInternalPage(j, cr1, k) ==
  IF cr1.toVisit # <<>>
  THEN /\ cr' = [cr EXCEPT ![j] = [cr1 EXCEPT !.current = Head(cr1.toVisit),
                                             !.toVisit = Tail(cr1.toVisit),
                                             !.atRoot = FALSE]]
       /\ timer' = [timer EXCEPT ![j] =
            Some(jobs[j].options.navigationDelayMs
                 + jitter(jobs[j].options.navigationJitterMs, k))]
       /\ pc' = [pc EXCEPT ![j] = "navSleep"]
  ELSE /\ cr' = [cr EXCEPT ![j] = cr1]
       /\ timer' = [timer EXCEPT ![j] = Undefined]
       /\ pc' = [pc EXCEPT ![j] = "pageClose"]

\* an extractLinks without the .catch(() => {}) on internal pages
ExtractLinksAlwaysThrows(j, error, k) ==
  /\ cr' = [cr EXCEPT ![j] = [@ EXCEPT !.thrown = Some(error)]]
  /\ timer' = [timer EXCEPT ![j] = Undefined]
  /\ pc' = [pc EXCEPT ![j] = "pageClose"]

\* an extractLinks whose failure is swallowed on the root page too
ExtractLinksNeverThrows(j, error, k) == NextInternalPage(j, cr[j], k)

\* extractLinks throws: the root's exception leaves the try block through
\* finally; an internal page's is swallowed by .catch(() => {})
ExtractLinksThrows(j, error, k) ==
  IF cr[j].atRoot
  THEN /\ cr' = [cr EXCEPT ![j] = [@ EXCEPT !.thrown = Some(error)]]
       /\ timer' = [timer EXCEPT ![j] = Undefined]
       /\ pc' = [pc EXCEPT ![j] = "pageClose"]
  ELSE NextInternalPage(j, cr[j], k)

\* await page.goto(currentPageUrl, ...); then sleep(250 + jitter(250))
PageGoto(j) ==
  /\ j \in Created /\ pc[j] = "goto"
  /\ \E k \in RandomDraws :
       \/ /\ timer' = [timer EXCEPT ![j] = Some(250 + jitter(250, k))]
          /\ pc' = [pc EXCEPT ![j] = "pause"]
          /\ UNCHANGED cr
       \/ ExtractLinksThrows(j, "Error: page.goto", k)
  /\ UNCHANGED <<jobs, responses, statusLog, store, notified, sm, pj, ck, browser>>
  /\ UNCHANGED lib

\* the pause is over: await page.title()
PauseElapsed(j) ==
  /\ j \in Created /\ pc[j] = "pause"
  /\ timer' = [timer EXCEPT ![j] = Undefined]
  /\ pc' = [pc EXCEPT ![j] = "title"]
  /\ UNCHANGED <<jobs, responses, statusLog, store, notified, sm, pj, cr, ck, browser>>
  /\ UNCHANGED lib

\* const title = await page.title().catch(() => ""); crawledPages.add(...);
\* then page.evaluate
PageTitle(j) ==
  /\ j \in Created /\ pc[j] = "title"
  /\ \E title \in PageTitles \cup {""} :
       cr' = [cr EXCEPT ![j] =
                [@ EXCEPT !.title = IF @ = "" /\ cr[j].atRoot THEN title ELSE @,
                          !.crawledPages = AddAll(@, <<NormalizedHref(cr[j].current)>>)]]
  /\ pc' = [pc EXCEPT ![j] = "evaluate"]
  /\ UNCHANGED <<jobs, responses, statusLog, store, notified, sm, pj, ck, timer, browser>>
  /\ UNCHANGED lib

\* a crawl that follows internal links whatever the option says
FollowInternalLinksAlways(options) == TRUE
\* if (options.followInternalLinks)
FollowInternalLinks(options) == options.followInternalLinks

\* page.evaluate answers: allLinks takes the absolute links; after the root page
\* internalToVisit is built when followInternalLinks is set
PageEvaluate(j) ==
  /\ j \in Created /\ pc[j] = "evaluate"
  /\ \E k \in RandomDraws :
       \/ \E content \in PageContents :
            LET c1 == [cr[j] EXCEPT !.allLinks = AddAll(@, content.absoluteLinks)]
                c2 == IF cr[j].atRoot /\ FollowInternalLinks(jobs[j].options)
                      THEN [c1 EXCEPT !.toVisit =
                              InternalToVisit(jobs[j].url, content.internalLinks,
                                 IF c1.extraInternalPages = Undefined THEN <<>>
                                 ELSE CHOOSE x \in c1.extraInternalPages : TRUE,
                                 jobs[j].options.maxInternalPages)]
                      ELSE c1
            IN  NextInternalPage(j, c2, k)
       \/ ExtractLinksThrows(j, "Error: page.evaluate", k)
  /\ UNCHANGED <<jobs, responses, statusLog, store, notified, sm, pj, ck, browser>>
  /\ UNCHANGED lib

\* the navigation delay is over: extractLinks(internalUrl) runs up to page.goto
NavSleepElapsed(j) ==
  /\ j \in Created /\ pc[j] = "navSleep"
  /\ timer' = [timer EXCEPT ![j] = Undefined]
  /\ pc' = [pc EXCEPT ![j] = "goto"]
  /\ UNCHANGED <<jobs, responses, statusLog, store, notified, sm, pj, cr, ck, browser>>
  /\ UNCHANGED lib

\* finally { await page.close(); ... }: a failure here replaces what was thrown
\* and skips context.close()
PageClose(j) ==
  /\ j \in Created /\ pc[j] = "pageClose"
  /\ \/ /\ browser' = [browser EXCEPT ![j].page = "closed"]
        /\ pc' = [pc EXCEPT ![j] = "contextClose"]
        /\ UNCHANGED <<jobs, statusLog, store, notified, sm, pj, cr, ck, timer>>
     \/ /\ Throw(j, "Error: page.close")
        /\ UNCHANGED browser
  /\ UNCHANGED responses
  /\ UNCHANGED lib

\* await context.close(): then what the try block threw is rethrown, or
\* discoverFromPages returns and processJob caps the links and calls checkLinks
ContextClose(j) ==
  /\ j \in Created /\ pc[j] = "contextClose"
  /\ \/ /\ browser' = [browser EXCEPT ![j].context = "closed"]
        /\ IF cr[j].thrown # Undefined
           THEN Throw(j, CHOOSE e \in cr[j].thrown : TRUE)
           ELSE EnterBatchLoop(j,
                  [NoCk EXCEPT !.links = CapLinks(cr[j].allLinks,
                                                  jobs[j].options.maxLinksToCheck)],
                  cr[j].title, pj[j].discoveryMethod, cr[j].crawledPages)
     \/ /\ Throw(j, "Error: context.close")
        /\ UNCHANGED browser
  /\ UNCHANGED responses
  /\ UNCHANGED lib

(***************************************************************************)
(* checkLinks and checkLink.                                               *)
(***************************************************************************)
\* results pushed last-first
BatchResultsReversed(batch) ==
  [n \in DOMAIN batch |-> CHOOSE r \in batch[Len(batch) + 1 - n].result : TRUE]
\* const batchResults = await Promise.all(batch.map(checkLink)): in batch order
BatchResults(batch) == [n \in DOMAIN batch |-> CHOOSE r \in batch[n].result : TRUE]

\* A request of probe n of the running batch ends.  A HEAD answered 405 is
\* followed by a GET; any other answer, or a rejection, ends the checkLink call.
\* When the last call of the batch has returned, Promise.all resolves: the
\* results are pushed, and the loop sleeps or goes on.
ProbeResponds(j, n) ==
  /\ j \in Created /\ pc[j] = "probing"
  /\ n \in DOMAIN ck[j].batch
  /\ ck[j].batch[n].stage # "done"
  /\ \E outcome \in (IF ck[j].batch[n].stage = "head" THEN HeadOutcomes ELSE GetOutcomes),
        k \in RandomDraws :
       LET c == ck[j]
           url == c.links[c.i + n]
           probe == AfterRequest(c.batch[n].stage, url, outcome)
           batch1 == [c.batch EXCEPT ![n] = probe]
           concurrency == Concurrency(jobs[j].options)
       IN  IF \E m \in DOMAIN batch1 : batch1[m].stage # "done"
           THEN /\ ck' = [ck EXCEPT ![j] = [c EXCEPT !.batch = batch1]]
                /\ UNCHANGED <<jobs, statusLog, store, notified, pc, sm, pj, cr, timer>>
           ELSE LET c1 == [c EXCEPT !.results = @ \o BatchResults(batch1),
                                    !.batch = <<>>]
                IN  IF MoreBatches(c.links, c.i, concurrency)
                    THEN /\ ck' = [ck EXCEPT ![j] = [c1 EXCEPT !.sleeps = @ + 1]]
                         /\ timer' = [timer EXCEPT ![j] =
                              Some(jobs[j].options.linkBatchDelayMs
                                   + jitter(jobs[j].options.linkBatchJitterMs, k))]
                         /\ pc' = [pc EXCEPT ![j] = "batchSleep"]
                         /\ UNCHANGED <<jobs, statusLog, store, notified, sm, pj, cr>>
                    ELSE EnterBatchLoop(j, [c1 EXCEPT !.i = @ + concurrency],
                           pj[j].title, pj[j].discoveryMethod, pj[j].pagesCrawledUrls)
  /\ UNCHANGED <<responses, browser>>
  /\ UNCHANGED lib

\* the sleep between two batches is over: i += concurrency, next batch
BatchSleepElapsed(j) ==
  /\ j \in Created /\ pc[j] = "batchSleep"
  /\ EnterBatchLoop(j, [ck[j] EXCEPT !.i = @ + Concurrency(jobs[j].options)],
                    pj[j].title, pj[j].discoveryMethod, pj[j].pagesCrawledUrls)
  /\ UNCHANGED <<responses, browser>>
  /\ UNCHANGED lib

(***************************************************************************)
(* The worker.                                                             *)
(***************************************************************************)
Step(j) ==
  \/ RobotsResponds(j)
  \/ SitemapResponds(j)
  \/ BrowserNewContext(j)
  \/ ContextAddInitScript(j)
  \/ ContextRoute(j)
  \/ ContextNewPage(j)
  \/ PageGoto(j)
  \/ PauseElapsed(j)
  \/ PageTitle(j)
  \/ PageEvaluate(j)
  \/ NavSleepElapsed(j)
  \/ PageClose(j)
  \/ ContextClose(j)
  \/ \E n \in 1..3 : ProbeResponds(j, n)
  \/ BatchSleepElapsed(j)

Next ==
  \/ \E body \in Bodies : PostJobsRejected(body)
  \/ \E id \in JobIds, body \in Bodies : PostJobsAccepted(id, body)
  \/ \E body \in ServiceBodies : ServicePostJobsRejected(body)
  \/ \E id \in JobIds, body \in ServiceBodies : ServicePostJobsAccepted(id, body)
  \/ \E j \in JobIds : Step(j)

Spec == Init /\ [][Next]_vars

\* Every task keeps running: an awaited fetch, browser call or timer ends.
FairSpec == Spec /\ \A j \in JobIds : WF_vars(Step(j))

(***************************************************************************)
(* The library functions, called on their own.                             *)
(***************************************************************************)
\* The status codes an HTTP response can carry.
StatusCodes == 100..MaxStatusCode

\* isAlive(statusCode)
CallIsAlive ==
  /\ lib = NoLib
  /\ \E c \in StatusCodes : lib' = [fn |-> "isAlive", arg |-> c, out |-> isAlive(c)]
  /\ UNCHANGED workerVars

\* checkLink's return for a final response with status code c
CallClassify ==
  /\ lib = NoLib
  /\ \E c \in StatusCodes, url \in {PageA, Ext1} :
       lib' = [fn |-> "classify", arg |-> c, out |-> LinkOk(url, c)]
  /\ UNCHANGED workerVars

\* The ways a request of checkLink can end: any status code, or a rejection.
RequestOutcomes ==
  {Responded(c) : c \in StatusCodes} \cup {Rejected(e) : e \in {FetchFailed, "TimeoutError"}}

\* checkLink(url) is called: it sends HEAD and waits.
CallCheckLink ==
  /\ lib = NoLib
  /\ \E url \in {PageA, Ext1} :
       lib' = [fn |-> "checkLink", url |-> url, probe |-> ProbeHead, requests |-> <<>>]
  /\ UNCHANGED workerVars

\* The request checkLink waits for ends; `requests` keeps the requests answered
\* so far (history).
CheckLinkResponds ==
  /\ lib.fn = "checkLink"
  /\ lib.probe.stage # "done"
  /\ \E outcome \in RequestOutcomes :
       lib' = [lib EXCEPT
                 !.probe = AfterRequest(lib.probe.stage, lib.url, outcome),
                 !.requests = Append(@, [method |-> PendingMethod(lib.probe.stage),
                                         outcome |-> outcome])]
  /\ UNCHANGED workerVars

\* What a fetch of fetchText can end in, for every status code.
FetchTextOutcomes ==
  {FetchRejected}
  \cup {FetchResponse(c, b) : c \in StatusCodes, b \in {Undefined, Some(""), Some("<urlset/>")}}

\* fetchText(url)
CallFetchText ==
  /\ lib = NoLib
  /\ \E outcome \in FetchTextOutcomes :
       lib' = [fn |-> "fetchText", arg |-> outcome, out |-> fetchText(outcome)]
  /\ UNCHANGED workerVars

\* A sitemap document as the elements a reader of the XML sees, in document
\* order: the tag, the tag of the first child, and the text of <loc> with the
\* white space around it.
XmlElement(tag, first, loc) == [tag |-> tag, first |-> first, loc |-> loc]
LocText(url, padded) == [url |-> url, padded |-> padded]
\* String.prototype.trim
Trim(text) == text.url
XmlElements ==
  {XmlElement(tag, first, loc) :
     tag \in {"sitemap", "url"}, first \in {"loc", "lastmod"},
     loc \in {LocText(PageA, FALSE), LocText(PageA, TRUE), LocText(PageB, FALSE)}}

\* Array.from(xml.matchAll(/<tag>\s*<loc>([^<]+)<\/loc>/gi), (m) => m[1].trim()):
\* an element matches when <loc> comes right after its opening tag
RECURSIVE MatchAllLoc(_, _)
MatchAllLoc(xml, tag) ==
  IF xml = <<>> THEN <<>>
  ELSE (IF Head(xml).tag = tag /\ Head(xml).first = "loc"
        THEN <<Trim(Head(xml).loc)>> ELSE <<>>)
       \o MatchAllLoc(Tail(xml), tag)

\* an extractSitemapUrlsFromXml that returns the <url> entries of an index too
extractSitemapUrlsFromXmlBoth(xml) ==
  [childSitemaps |-> MatchAllLoc(xml, "sitemap"), urls |-> MatchAllLoc(xml, "url")]

extractSitemapUrlsFromXml(xml) ==
  IF Len(MatchAllLoc(xml, "sitemap")) > 0
  THEN [childSitemaps |-> MatchAllLoc(xml, "sitemap"), urls |-> <<>>]
  ELSE [childSitemaps |-> <<>>, urls |-> MatchAllLoc(xml, "url")]

CallExtractSitemapUrlsFromXml ==
  /\ lib = NoLib
  /\ \E xml \in SeqsUpTo(XmlElements, MaxElements) :
       lib' = [fn |-> "extractSitemapUrlsFromXml", arg |-> xml,
               out |-> extractSitemapUrlsFromXml(xml)]
  /\ UNCHANGED workerVars

\* The lines of a robots.txt, as split("\n") yields them.
RobotsLines ==
  { RobotsLine("User-agent", "*"), RobotsLine("Disallow", ""), RobotsLine("", ""),
    RobotsLine("Sitemap", SitemapXmlUrl), RobotsLine("SITEMAP", NewsSitemapUrl),
    RobotsLine("sitemap", SitemapIndexUrl),
    RobotsLineCR("User-agent", "*"), RobotsLineCR("Sitemap", SitemapXmlUrl) }

extractSitemapUrlsFromRobotsTxt(robotsTxt) == SitemapLines(robotsTxt)

CallExtractSitemapUrlsFromRobotsTxt ==
  /\ lib = NoLib
  /\ \E robotsTxt \in SeqsUpTo(RobotsLines, MaxLines) :
       lib' = [fn |-> "extractSitemapUrlsFromRobotsTxt", arg |-> robotsTxt,
               out |-> extractSitemapUrlsFromRobotsTxt(robotsTxt)]
  /\ UNCHANGED workerVars

\* The strings selectInternalPagesToCrawl is given, as the scheme, host, path
\* and fragment written in them; a string without a scheme does not parse.
UrlString(protocol, host, path, hash) ==
  [protocol |-> protocol, host |-> host, path |-> path, hash |-> hash]
NotAUrl == UrlString("", "", "not a url", "")
\* new URL(u): throws for a string that is no URL, lower-cases the host
LowerHost(host) == IF host = "SITE.TEST" THEN "site.test" ELSE host
NewUrl(u) == IF u.protocol = "" THEN Null ELSE Some([u EXCEPT !.host = LowerHost(u.host)])
\* url.hash = ""
ClearHash(url) == [url EXCEPT !.hash = ""]

CrawlRoots ==
  { UrlString("https:", "site.test", "/", ""), UrlString("https:", "SITE.TEST", "/", "#top"),
    NotAUrl }
CrawlCandidates ==
  { UrlString("https:", "site.test", "/", "#a"),
    UrlString("https:", "site.test", "/posts", ""),
    UrlString("https:", "site.test", "/posts", "#one"),
    UrlString("https:", "SITE.TEST", "/b", ""),
    UrlString("http:", "site.test", "/b", "#two"),
    UrlString("https:", "other.test", "/x", ""),
    UrlString("mailto:", "", "team@site.test", ""),
    UrlString("ftp:", "site.test", "/file", ""),
    NotAUrl }

\* a filter that keeps pages of every host
KeptAnyHost(parsed, root) ==
  /\ parsed.protocol \in {"http:", "https:"}
  /\ ClearHash(parsed) # root

\* the loop body's tests on a parsed candidate; root has its hash cleared
Kept(parsed, root) ==
  /\ parsed.protocol \in {"http:", "https:"}
  /\ parsed.host = root.host
  /\ ClearHash(parsed) # root

\* a loop that stops one entry late
LoopBreaksLate(selected, maxInternalPages) == Len(selected) > maxInternalPages

\* if (selected.length >= maxInternalPages) break
LoopBreaks(selected, maxInternalPages) == Len(selected) >= maxInternalPages

\* for (const u of candidates) { ... }; seen holds what selected holds
RECURSIVE SelectLoop(_, _, _, _)
SelectLoop(selected, candidates, root, maxInternalPages) ==
  IF candidates = <<>> \/ LoopBreaks(selected, maxInternalPages) THEN selected
  ELSE LET url == NewUrl(Head(candidates))
           parsed == CHOOSE x \in url : TRUE
       IN  SelectLoop(IF /\ url # Null
                         /\ Kept(parsed, root)
                         /\ ~Includes(selected, ClearHash(parsed))
                      THEN Append(selected, ClearHash(parsed)) ELSE selected,
                      Tail(candidates), root, maxInternalPages)

selectInternalPagesToCrawl(rootUrl, candidates, maxInternalPages) ==
  IF NewUrl(rootUrl) = Null THEN Thrown("TypeError: Invalid URL")
  ELSE Returned(SelectLoop(<<>>, candidates,
                           ClearHash(CHOOSE x \in NewUrl(rootUrl) : TRUE),
                           maxInternalPages))

CallSelectInternalPagesToCrawl ==
  /\ lib = NoLib
  /\ \E rootUrl \in CrawlRoots, candidates \in SeqsUpTo(CrawlCandidates, MaxCandidates),
        maxInternalPages \in -1..MaxCandidates :
       lib' = [fn |-> "selectInternalPagesToCrawl", rootUrl |-> rootUrl,
               candidates |-> candidates, maxInternalPages |-> maxInternalPages,
               out |-> selectInternalPagesToCrawl(rootUrl, candidates, maxInternalPages),
               uncapped |-> selectInternalPagesToCrawl(rootUrl, candidates,
                                                       Len(candidates))]
  /\ UNCHANGED workerVars

\* discoverFromPages builds internalToVisit from the internal links of the root
\* page and the seed pages it was given; both come from a Set.
DistinctSeqs(S, n) == {q \in SeqsUpTo(S, n) : \A a, b \in DOMAIN q : q[a] = q[b] => a = b}
CallInternalToVisit ==
  /\ lib = NoLib
  /\ \E internalLinks \in DistinctSeqs({RootUrl, PageA, PageB}, MaxCandidates),
        extraInternalPages \in DistinctSeqs({PageA, PageB, OtherPage, BadUrl}, MaxCandidates),
        maxInternalPages \in -1..MaxCandidates :
       lib' = [fn |-> "internalToVisit", internalLinks |-> internalLinks,
               extraInternalPages |-> extraInternalPages,
               maxInternalPages |-> maxInternalPages,
               out |-> InternalToVisit(RootUrl, internalLinks, extraInternalPages,
                                       maxInternalPages)]
  /\ UNCHANGED workerVars

\* normalizeOptions as a call on objects: what it returns, and the defaults
\* object and the argument as they are after the call.
\* options ?? {}
Coalesce(options) == IF options = Undefined THEN NoOptions ELSE CHOOSE o \in options : TRUE

\* a normalizeOptions written as Object.assign(DEFAULT_OPTIONS, options)
NormalizeCallAssign(defaults, options) ==
  [value |-> Coalesce(options) @@ defaults,
   defaults |-> Coalesce(options) @@ defaults,
   argument |-> options]

\* return { ...DEFAULT_OPTIONS, ...(options ?? {}) }: a new object
NormalizeCall(defaults, options) ==
  [value |-> Coalesce(options) @@ defaults,
   defaults |-> defaults,
   argument |-> options]

\* The arguments normalizeOptions is called with: none, the options of the
\* requests, every choice among three fields, an unknown field, a null field.
NormalizeArguments ==
  {Undefined}
  \cup {Some(o) : o \in OptionInputs}
  \cup {Some([k \in S |-> [followInternalLinks |-> FALSE, maxInternalPages |-> 3,
                          maxLinksToCheck |-> 0][k]]) :
          S \in SUBSET {"followInternalLinks", "maxInternalPages", "maxLinksToCheck"}}
  \cup {Some([userAgent |-> "bot"]), Some([navigationDelayMs |-> Null])}

\* normalizeOptions(x), then normalizeOptions of what it returned
CallNormalizeOptions ==
  /\ lib = NoLib
  /\ \E options \in NormalizeArguments :
       LET first == NormalizeCall(DEFAULT_OPTIONS, options)
           second == NormalizeCall(first.defaults, Some(first.value))
       IN  lib' = [fn |-> "normalizeOptions", arg |-> options, out |-> first.value,
                   again |-> second.value, argAfter |-> first.argument,
                   defaultsAfter |-> second.defaults]
  /\ UNCHANGED workerVars

\* The request bodies whose options carry a field without a value: JSON null
\* under `options`, JSON null at top level, and both next to a field with a value.
EmptyFieldBodies ==
  { [url |-> RootUrl, options |-> [navigationDelayMs |-> Null]],
    [url |-> RootUrl, maxInternalPages |-> Null],
    [url |-> RootUrl, maxLinksToCheck |-> 7, options |-> [followInternalLinks |-> Null]] }

\* POST /jobs up to the job literal of createJob: the merge of the body's
\* option fields and normalizeOptions of the merge
CallCreateJob ==
  /\ lib = NoLib
  /\ \E body \in {b \in Bodies \cup EmptyFieldBodies : ~UrlMissing(b)} :
       lib' = [fn |-> "createJob", body |-> body, merged |-> MergedOptions(body),
               options |-> NewJob("job-1", body.url, MergedOptions(body)).options]
  /\ UNCHANGED workerVars

\* The links of a page, as page.evaluate extracts them from its anchors.
\* An href attribute: absolute, or relative with an empty protocol and host.
Href(protocol, host, path, hash) == UrlString(protocol, host, path, hash)
Hrefs ==
  { Href("https:", "ext.test", "/x", ""),
    Href("https:", "ext.test", "/x", "#frag"),
    Href("", "", "/a", "#top"),
    Href("", "", "/a", ""),
    Href("", "", "", "#section"),
    Href("http:", "SITE.TEST", "/a", ""),
    Href("mailto:", "", "me@site.test", ""),
    Href("ftp:", "files.test", "/f", ""),
    Href("https:", "", "", ""),
    Href("", "", "", "") }

\* raw.startsWith("mailto:") || raw.startsWith("tel:") || raw.startsWith("javascript:")
SkippedScheme(raw) == raw.protocol \in {"mailto:", "tel:", "javascript:"}

\* new URL(raw, window.location.href): a relative reference takes the page's
\* protocol and host, and the page's path when it is only a fragment; an
\* http(s) URL without host does not parse
NewUrlWithBase(raw, base) ==
  IF raw.protocol = ""
  THEN Some(UrlString(base.protocol, base.host,
                      IF raw.path = "" THEN base.path ELSE raw.path, raw.hash))
  ELSE IF raw.protocol \in {"http:", "https:"} /\ raw.host = "" THEN Null
  ELSE NewUrl(raw)

\* an extraction that keeps the fragment
KeepHash(url) == url
\* resolved.hash = ""
StripHash(url) == ClearHash(url)

\* the for loop over the anchors: abs, the page's Set of absolute links, in
\* insertion order
RECURSIVE AbsoluteLinks(_, _, _)
AbsoluteLinks(abs, anchors, base) ==
  IF anchors = <<>> THEN abs
  ELSE LET raw == Head(anchors)
           resolved == NewUrlWithBase(raw, base)
       IN  IF raw = Href("", "", "", "") \/ SkippedScheme(raw) \/ resolved = Null
           THEN AbsoluteLinks(abs, Tail(anchors), base)
           ELSE LET url == StripHash(CHOOSE u \in resolved : TRUE)
                IN  IF url.protocol # "http:" /\ url.protocol # "https:"
                    THEN AbsoluteLinks(abs, Tail(anchors), base)
                    ELSE AbsoluteLinks(AddAll(abs, <<url>>), Tail(anchors), base)

MaxAnchors == 2
AnchorLists == SeqsUpTo(Hrefs, MaxAnchors)
\* The anchors of the internal page: none, those of the root page written
\* otherwise, a link to itself and a new one.
InternalAnchorLists ==
  { <<>>,
    <<Href("https:", "ext.test", "/x", "#frag"), Href("", "", "/a", "")>>,
    <<Href("", "", "", "#section"), Href("https:", "ext.test", "/x", ""),
      Href("http:", "SITE.TEST", "/a", "")>> }
RootPage == UrlString("https:", "site.test", "/", "")
InternalPage == UrlString("https:", "site.test", "/a", "")

\* The root page and one internal page are crawled: allLinks takes the
\* absolute links of both, and processJob caps Array.from(allLinks).
CallAllLinks ==
  /\ lib = NoLib
  /\ \E first \in AnchorLists, second \in InternalAnchorLists, maxLinksToCheck \in {1, 500} :
       LET afterRoot == AddAll(<<>>, AbsoluteLinks(<<>>, first, RootPage))
           allLinks == AddAll(afterRoot, AbsoluteLinks(<<>>, second, InternalPage))
       IN  lib' = [fn |-> "allLinks", anchors |-> <<first, second>>,
                   maxLinksToCheck |-> maxLinksToCheck, allLinks |-> allLinks,
                   links |-> CapLinks(allLinks, maxLinksToCheck)]
  /\ UNCHANGED workerVars

\* The pages a crawl reports.  Where an extractLinks call fails, if it does.
CrawlOutcomes == {"ok", "page.goto", "page.evaluate"}

\* an extractLinks that records the page before it navigates to it
CrawledAfterBeforeGoto(crawledPages, currentPageUrl, outcome) ==
  IF NewUrl(currentPageUrl) = Null THEN crawledPages
  ELSE AddAll(crawledPages, <<ClearHash(CHOOSE u \in NewUrl(currentPageUrl) : TRUE)>>)

\* extractLinks up to page.evaluate: after page.goto, the pause and page.title,
\* try { normalized = new URL(currentPageUrl); normalized.hash = "";
\* crawledPages.add(normalized.href) } catch {}
CrawledAfter(crawledPages, currentPageUrl, outcome) ==
  IF outcome = "page.goto" \/ NewUrl(currentPageUrl) = Null THEN crawledPages
  ELSE AddAll(crawledPages, <<ClearHash(CHOOSE u \in NewUrl(currentPageUrl) : TRUE)>>)

\* for (const internalUrl of internalToVisit) await extractLinks(internalUrl)
\* .catch(() => {}): a failure of an internal page is swallowed
RECURSIVE CrawlInternal(_, _, _)
CrawlInternal(crawledPages, internalToVisit, outcomes) ==
  IF internalToVisit = <<>> THEN crawledPages
  ELSE CrawlInternal(CrawledAfter(crawledPages, Head(internalToVisit), Head(outcomes)),
                     Tail(internalToVisit), Tail(outcomes))

\* discoverFromPages seen from its pages: the root's failure is thrown, else
\* pagesCrawledUrls: Array.from(crawledPages) is returned
CrawledPagesOf(rootUrl, internalToVisit, outcomes) ==
  IF Head(outcomes) # "ok" THEN Thrown("Error: " \o Head(outcomes))
  ELSE Returned(CrawlInternal(CrawledAfter(<<>>, rootUrl, Head(outcomes)),
                              internalToVisit, Tail(outcomes)))

MaxVisited == 2
CrawlRootUrls == {RootPage, UrlString("https:", "site.test", "/", "#top")}
CrawlPageUrls ==
  { InternalPage, UrlString("https:", "site.test", "/a", "#team"),
    UrlString("https:", "SITE.TEST", "/b", "") }

\* discoverFromPages and the result processJob writes from what it returns
CallDiscoverFromPages ==
  /\ lib = NoLib
  /\ \E rootUrl \in CrawlRootUrls, n \in 0..MaxVisited :
       \E internalToVisit \in [1..n -> CrawlPageUrls], outcomes \in [1..(n + 1) -> CrawlOutcomes] :
         LET pageData == CrawledPagesOf(rootUrl, internalToVisit, outcomes)
         IN  /\ \A a, b \in 1..n : internalToVisit[a] = internalToVisit[b] => a = b
             /\ lib' = [fn |-> "discoverFromPages", rootUrl |-> rootUrl,
                        internalToVisit |-> internalToVisit, outcomes |-> outcomes,
                        pageData |-> pageData,
                        result |-> IF pageData.kind = "return"
                                   THEN Some(JobResult("Home", "scrape", pageData.value, <<>>))
                                   ELSE Undefined]
  /\ UNCHANGED workerVars

\* The arguments jitter is called with and the delays it is added to.
MaxJitter == 5
JitterArguments == (0 - 2)..MaxJitter
DelayBases == {0, 3, 600}

\* sleep(base + jitter(maxMs)): the jitter drawn and the delay slept
CallJitter ==
  /\ lib = NoLib
  /\ \E maxMs \in JitterArguments, base \in DelayBases, k \in RandomDraws :
       lib' = [fn |-> "jitter", maxMs |-> maxMs, base |-> base,
               out |-> jitter(maxMs, k), delay |-> base + jitter(maxMs, k)]
  /\ UNCHANGED workerVars

LibNext ==
  \/ CallFetchText
  \/ CallDiscoverFromPages
  \/ CallAllLinks
  \/ CallJitter
  \/ CallNormalizeOptions
  \/ CallCreateJob
  \/ CallInternalToVisit
  \/ CallSelectInternalPagesToCrawl
  \/ CallExtractSitemapUrlsFromRobotsTxt
  \/ CallExtractSitemapUrlsFromXml
  \/ CallIsAlive
  \/ CallClassify
  \/ CallCheckLink
  \/ CheckLinkResponds

LibSpec == Init /\ [][LibNext]_vars

(***************************************************************************)
(* discoverFromSitemap on a site that does not change: every sitemap URL   *)
(* has one answer for as long as the call runs.                            *)
(***************************************************************************)
\* fetchText's answer for every sitemap URL of the site
Worlds == [SitemapUrls -> {Null} \cup {Some(d) : d \in XmlDocs}]

\* discoverFromSitemap(baseUrl) is called and awaits robots.txt
CallDiscoverFromSitemap ==
  /\ lib = NoLib
  /\ \E world \in Worlds :
       lib' = [fn |-> "discoverFromSitemap", at |-> "robots", world |-> world,
               robots |-> <<>>, sitemapUrls |-> <<>>, sm |-> NoSm,
               fetched |-> {}, again |-> FALSE, parsed |-> <<>>, result |-> <<>>]
  /\ UNCHANGED workerVars

\* robots.txt is answered and the first candidate is fetched.  `robots` keeps
\* the entries getSitemapUrlsFromRobots found.
DiscoverRobotsResponds ==
  /\ lib.fn = "discoverFromSitemap" /\ lib.at = "robots"
  /\ \E outcome \in FetchOutcomes(RobotsTexts) :
       LET robotsTxt == fetchText(outcome).value
           sitemapUrls == AddCommonPaths(getSitemapUrlsFromRobots(robotsTxt),
                                         commonSitemapPaths, RootOrigin)
       IN  lib' = [lib EXCEPT !.at = "sitemap",
                              !.robots = getSitemapUrlsFromRobots(robotsTxt),
                              !.sitemapUrls = sitemapUrls,
                              !.sm = [cands |-> Tail(sitemapUrls),
                                      pending |-> <<Head(sitemapUrls)>>,
                                      leaf |-> <<>>, urls |-> <<>>,
                                      lastNull |-> robotsTxt = Null]]
  /\ UNCHANGED workerVars

\* The sitemap URL that is being fetched is answered.  `fetched` keeps the URLs
\* answered so far and `again` that one of them was answered twice; `parsed`
\* keeps what parseSitemap returned for every candidate it has returned for.
DiscoverSitemapResponds ==
  /\ lib.fn = "discoverFromSitemap" /\ lib.at = "sitemap"
  /\ LET sitemapUrl == Head(lib.sm.pending)
         xml == lib.world[sitemapUrl]
         s == AfterAnswer(lib.sm, xml)
         returns == PendingAfter(lib.sm.pending, xml) = <<>>
         parsed == IF returns
                   THEN Append(lib.parsed,
                               [url |-> lib.sitemapUrls[Len(lib.parsed) + 1],
                                links |-> LeafAfter(lib.sm.leaf, xml)])
                   ELSE lib.parsed
     IN  /\ Len(PendingAfter(lib.sm.pending, xml)) <= MaxPending
         /\ Len(LeafAfter(lib.sm.leaf, xml)) <= MaxReturned
         /\ lib' = [lib EXCEPT !.at = IF s.pending = <<>> THEN "returned" ELSE "sitemap",
                                !.sm = s,
                                !.fetched = @ \cup {sitemapUrl},
                                !.again = @ \/ sitemapUrl \in lib.fetched,
                                !.parsed = parsed,
                                !.result = IF s.pending = <<>> THEN s.urls ELSE <<>>]
  /\ UNCHANGED workerVars

SitemapNext ==
  \/ CallDiscoverFromSitemap
  \/ DiscoverRobotsResponds
  \/ DiscoverSitemapResponds

\* Every fetch is answered or times out, so a pending step is taken.
SitemapSpec == Init /\ [][SitemapNext]_vars /\ WF_vars(SitemapNext)

(***************************************************************************)
(* Two jobs processed at the same time.                                    *)
(***************************************************************************)
PairIds == {"job-1", "job-2"}

\* The two submissions: the first job crawls one internal page and checks one
\* link at a time, the second crawls the root page alone and checks two links
\* at a time.
PairBodies ==
  [id \in PairIds |->
     IF id = "job-1"
     THEN [url |-> RootUrl,
           options |-> [linkCheckConcurrency |-> 1, maxInternalPages |-> 1,
                        navigationDelayMs |-> 3, navigationJitterMs |-> 0,
                        linkBatchDelayMs |-> 5, linkBatchJitterMs |-> 0]]
     ELSE [url |-> RootUrl,
           options |-> [followInternalLinks |-> FALSE, linkCheckConcurrency |-> 2]]]

\* The site the two jobs meet: it has no sitemap, its root page links to PageA
\* and Ext1, the pause after a navigation is 250 ms, and every link answers
\* its HEAD request with 200 or 404.
PairWorld ==
  \A j \in Created :
    /\ sm[j].urls = <<>> /\ sm[j].leaf = <<>> /\ Len(sm[j].pending) <= 1
    /\ ~sm[j].lastNull
    /\ cr[j].crawledPages # <<>> => cr[j].title = "Home"
    /\ timer[j] \in {Undefined, Some(250), Some(3), Some(5)}
    /\ cr[j].allLinks \in {<<>>, <<PageA, Ext1>>}
    /\ pc[j] \in {"navSleep", "pageClose", "contextClose"} /\ cr[j].thrown = Undefined
         => cr[j].allLinks # <<>>
    /\ \A n \in DOMAIN ck[j].batch :
         /\ ck[j].batch[n].stage # "get"
         /\ \A r \in ck[j].batch[n].result : r.status \in {"alive", "dead"}
    /\ \A n \in DOMAIN ck[j].results : ck[j].results[n].status \in {"alive", "dead"}

PairNext ==
  \/ \E id \in PairIds : PostJobsAccepted(id, PairBodies[id]) /\ PairWorld'
  \/ \E j \in PairIds : RobotsResponds(j) /\ PairWorld'
  \/ \E j \in PairIds : SitemapResponds(j) /\ PairWorld'
  \/ \E j \in PairIds : BrowserNewContext(j) /\ PairWorld'
  \/ \E j \in PairIds : ContextAddInitScript(j) /\ PairWorld'
  \/ \E j \in PairIds : ContextRoute(j) /\ PairWorld'
  \/ \E j \in PairIds : ContextNewPage(j) /\ PairWorld'
  \/ \E j \in PairIds : PageGoto(j) /\ PairWorld'
  \/ \E j \in PairIds : PauseElapsed(j) /\ PairWorld'
  \/ \E j \in PairIds : PageTitle(j) /\ PairWorld'
  \/ \E j \in PairIds : PageEvaluate(j) /\ PairWorld'
  \/ \E j \in PairIds : NavSleepElapsed(j) /\ PairWorld'
  \/ \E j \in PairIds : PageClose(j) /\ PairWorld'
  \/ \E j \in PairIds : ContextClose(j) /\ PairWorld'
  \/ \E j \in PairIds, n \in 1..2 : ProbeResponds(j, n) /\ PairWorld'
  \/ \E j \in PairIds : BatchSleepElapsed(j) /\ PairWorld'

PairSpec == Init /\ [][PairNext]_vars

(***************************************************************************)
(* Properties.                                                             *)
(***************************************************************************)
Terminal(status) == status \in {"completed", "failed"}

StatusPaths ==
  { <<"pending">>, <<"pending", "processing">>,
    <<"pending", "processing", "completed">>, <<"pending", "processing", "failed">> }

\* C1: job.status only moves pending -> processing -> completed or
\* pending -> processing -> failed, and once a job is completed or failed its
\* status, result and error never change again.
C1_StatusLifecycle ==
  /\ [](\A j \in Created :
          /\ statusLog[j] \in StatusPaths
          /\ statusLog[j][Len(statusLog[j])] = jobs[j].status)
  /\ [][\A j \in Created :
          Terminal(jobs[j].status) =>
            /\ jobs'[j].status = jobs[j].status
            /\ jobs'[j].result = jobs[j].result
            /\ jobs'[j].error = jobs[j].error
            /\ statusLog'[j] = statusLog[j]]_vars

\* Both terminal states are reached through processing after an await.
C1_Witness ==
  \E j \in Created :
    /\ statusLog[j] = <<"pending", "processing", "completed">>
    /\ jobs[j].result # Undefined
    /\ \A r \in jobs[j].result : r.linksChecked > 0

\* C2: the job createJob returns, and the status in the 202 answer of POST /jobs,
\* is "pending" for every url.
C2_ReturnsPending ==
  \A r \in responses : r.code = 202 => r.status = "pending"

\* C3: in every JobResult alive + dead + errors = linksChecked = the length of links.
C3_TalliesAddUp ==
  \A j \in Created : \A r \in jobs[j].result :
    /\ r.alive + r.dead + r.errors = r.linksChecked
    /\ r.linksChecked = Len(r.links)

\* A result with links of all three kinds.
C3_Witness ==
  \E j \in Created : \E r \in jobs[j].result :
    r.alive > 0 /\ r.dead > 0 /\ r.errors > 0

\* C4: a job that is processing eventually is completed or failed, when every
\* fetch, navigation and sleep ends.
C4_ProcessingEnds ==
  \A j \in JobIds :
    (j \in Created /\ jobs[j].status = "processing")
      ~> (j \in Created /\ Terminal(jobs[j].status))

\* The second half of C4: a job that is processing always has an await to
\* return from, so it can always take a step.
C4_NeverStuck ==
  \A j \in Created : jobs[j].status = "processing" => pc[j] # "done" /\ ENABLED Step(j)

\* The exceptions the await a task is suspended at can raise into processJob's
\* try block: the failing call's own, or the one discoverFromPages rethrows.
RaisedAt(j) ==
  CASE pc[j] = "newContext" -> {"Error: browser.newContext"}
    [] pc[j] = "addInitScript" -> {"Error: context.addInitScript"}
    [] pc[j] = "route" -> {"Error: context.route"}
    [] pc[j] = "newPage" -> {"Error: context.newPage"}
    [] pc[j] = "pageClose" -> {"Error: page.close"}
    [] pc[j] = "contextClose" -> {"Error: context.close"} \cup cr[j].thrown
    [] OTHER -> {}

\* C5: an exception that reaches processJob's try block ends the job as failed
\* with job.error the string of that exception and no result; a job that ends
\* completed or failed has completedAt set, and a job that has not ended has not.
C5_ExceptionsFail ==
  /\ [](\A j \in Created :
          /\ Terminal(jobs[j].status) <=> jobs[j].completedAt # Undefined
          /\ jobs[j].status = "failed" <=> jobs[j].error # Undefined
          /\ jobs[j].status = "completed" <=> jobs[j].result # Undefined
          /\ ~UrlParses(jobs[j].url) => jobs[j].error = Some(InvalidUrl))
  /\ [][\A j \in Created :
          /\ (pc[j] # "done" /\ jobs'[j].status = "failed") =>
               /\ jobs'[j].error # Undefined
               /\ jobs'[j].error \subseteq RaisedAt(j)
          /\ (pc[j] = "contextClose" /\ pc'[j] # pc[j] /\ cr[j].thrown # Undefined) =>
               /\ jobs'[j].status = "failed"
               /\ jobs'[j].error \in {cr[j].thrown, Some("Error: context.close")}
          /\ (pc[j] # "done" /\ pc'[j] = "done") =>
               jobs'[j].completedAt = Some(Now)]_vars

\* The root page's navigation failed and the job ended failed with that error.
C5_Witness ==
  \E j \in Created :
    /\ jobs[j].status = "failed"
    /\ jobs[j].error = Some("Error: page.goto")
    /\ jobs[j].completedAt # Undefined

Last(s) == s[Len(s)]

SeedsPassed(j) == cr[j].extraInternalPages
IsSubSeq(s, t) ==
  \E f \in [DOMAIN s -> DOMAIN t] :
    /\ \A a, b \in DOMAIN s : a < b => f[a] < f[b]
    /\ \A a \in DOMAIN s : s[a] = t[f[a]]

\* C7 as stated: the method is "sitemap" exactly when discoverFromSitemap
\* returned a URL and "scrape" exactly when it returned none, and the crawler is
\* started with seed pages in the first case and with none in the second.
C7_SeedsWhenSitemap ==
  \A j \in Created : pc[j] = "newContext" =>
    /\ pj[j].discoveryMethod = "sitemap" <=> Len(pj[j].sitemapPages) > 0
    /\ pj[j].discoveryMethod = "scrape" <=> Len(pj[j].sitemapPages) = 0
    /\ Len(pj[j].sitemapPages) > 0 =>
         \E seeds \in SeedsPassed(j) : seeds # <<>>
    /\ Len(pj[j].sitemapPages) = 0 => SeedsPassed(j) = Undefined

\* C7 amended: the method is "sitemap" exactly when discoverFromSitemap returned
\* a URL and "scrape" exactly when it returned none; the crawler runs in both
\* cases; in the first it is handed a seed list, which holds only same-origin
\* sitemap URLs in sitemap order and may be empty, in the second no seed list;
\* the method chosen then is the one in the completed job's result.
C7_MethodAndSeeds ==
  /\ [](\A j \in Created : pc[j] = "newContext" =>
          /\ pj[j].discoveryMethod = "sitemap" <=> Len(pj[j].sitemapPages) > 0
          /\ pj[j].discoveryMethod = "scrape" <=> Len(pj[j].sitemapPages) = 0
          /\ Len(pj[j].sitemapPages) > 0 =>
               /\ SeedsPassed(j) # Undefined
               /\ \A seeds \in SeedsPassed(j) :
                    /\ IsSubSeq(seeds, pj[j].sitemapPages)
                    /\ \A n \in DOMAIN seeds : UrlOrigin(seeds[n]) = UrlOrigin(jobs[j].url)
                    /\ jobs[j].options.maxInternalPages >= 0 =>
                         Len(seeds) <= jobs[j].options.maxInternalPages
          /\ Len(pj[j].sitemapPages) = 0 => SeedsPassed(j) = Undefined)
  /\ [][\A j \in Created :
          /\ pc[j] = "sitemap" => pc'[j] \in {"sitemap", "newContext"}
          /\ pc[j] \notin {"robots", "sitemap", "done"} =>
               /\ pc'[j] # "done" => pj'[j].discoveryMethod = pj[j].discoveryMethod
               /\ jobs'[j].status = "completed" =>
                    /\ pc[j] \in {"contextClose", "probing", "batchSleep"}
                    /\ \A r \in jobs'[j].result :
                         r.discoveryMethod = pj[j].discoveryMethod]_vars

\* The sitemap listed only another site's page: method "sitemap", no seed page.
C7_Witness ==
  \E j \in Created :
    /\ pc[j] = "newContext"
    /\ pj[j].discoveryMethod = "sitemap"
    /\ SeedsPassed(j) = Some(<<>>)
    /\ jobs[j].options.maxInternalPages > 0

\* C8: the list handed to checkLinks is no longer than maxLinksToCheck, so
\* linksChecked never exceeds maxLinksToCheck.
C8_NeverMoreThanMax ==
  \A j \in Created :
    /\ pc[j] \in {"probing", "batchSleep"} =>
         Len(ck[j].links) <= Max(0, jobs[j].options.maxLinksToCheck)
    /\ \A r \in jobs[j].result : r.linksChecked <= jobs[j].options.maxLinksToCheck

\* max(1, linkCheckConcurrency), not through Math.max
BatchSize(j) ==
  IF jobs[j].options.linkCheckConcurrency >= 1
  THEN jobs[j].options.linkCheckConcurrency ELSE 1
InFlight(j) == Cardinality({n \in DOMAIN ck[j].batch : ck[j].batch[n].stage # "done"})

\* C9: the links are probed in consecutive batches of max(1, linkCheckConcurrency),
\* the last possibly shorter; a batch starts only when no probe of the batch
\* before is in flight, so never more than max(1, linkCheckConcurrency) probes of
\* a job are in flight.
C9_Batches ==
  /\ [](\A j \in Created :
          /\ InFlight(j) <= BatchSize(j)
          /\ pc[j] = "probing" =>
               /\ InFlight(j) >= 1
               /\ ck[j].i % BatchSize(j) = 0
               /\ ck[j].i < Len(ck[j].links)
               /\ Len(ck[j].batch) = Min(BatchSize(j), Len(ck[j].links) - ck[j].i)
               /\ Len(ck[j].results) = ck[j].i
          /\ pc[j] # "probing" => ck[j].batch = <<>>
          /\ \A n \in DOMAIN ck[j].results : ck[j].results[n].url = ck[j].links[n])
  /\ [][\A j \in Created :
          (pc'[j] = "probing" /\ (pc[j] # "probing" \/ ck'[j].i # ck[j].i)) =>
            /\ InFlight(j) = 0
            /\ pc[j] \in {"contextClose", "batchSleep"}
            /\ pc[j] = "batchSleep" => ck'[j].i = ck[j].i + BatchSize(j)
            /\ pc[j] = "contextClose" => ck'[j].i = 0]_vars

\* Two probes of a second batch are in flight after a first batch of two.
C9_Witness ==
  \E j \in Created :
    /\ pc[j] = "probing"
    /\ ck[j].i = 2
    /\ BatchSize(j) = 2
    /\ InFlight(j) = 1
    /\ Len(ck[j].links) = 3

CeilDiv(n, c) == (n + c - 1) \div c

\* C10: after every batch but the last the task sleeps linkBatchDelayMs plus a
\* jitter in [0, linkBatchJitterMs] before the next batch starts, whatever the
\* probes answered; after the last batch it does not sleep: ceil(n/c) - 1 sleeps
\* for n > 0 links in batches of c.
C10_Sleeps ==
  /\ [](\A j \in Created :
          /\ pc[j] = "batchSleep" =>
               /\ ck[j].i + BatchSize(j) < Len(ck[j].links)
               /\ Len(ck[j].results) = ck[j].i + BatchSize(j)
               /\ ck[j].sleeps = (ck[j].i \div BatchSize(j)) + 1
               /\ \E ms \in timer[j] :
                    /\ ms >= jobs[j].options.linkBatchDelayMs
                    /\ ms <= jobs[j].options.linkBatchDelayMs
                               + Max(0, jobs[j].options.linkBatchJitterMs)
          /\ pc[j] = "probing" => ck[j].sleeps = ck[j].i \div BatchSize(j))
  /\ [][\A j \in Created :
          /\ (pc[j] = "probing" /\ pc'[j] # "probing") =>
               IF ck[j].i + BatchSize(j) < Len(ck[j].links)
               THEN pc'[j] = "batchSleep"
               ELSE /\ pc'[j] = "done"
                    /\ ck[j].sleeps = CeilDiv(Len(ck[j].links), BatchSize(j)) - 1
          /\ (pc'[j] = "probing" /\ ck'[j].i > 0 /\ ck'[j].i # ck[j].i) =>
               pc[j] = "batchSleep"]_vars

\* A sleep follows a batch whose probe was rejected.
C10_Witness ==
  \E j \in Created :
    /\ pc[j] = "batchSleep"
    /\ ck[j].sleeps = 2
    /\ \E n \in DOMAIN ck[j].results : ck[j].results[n].status = "error"
    /\ \E n \in DOMAIN ck[j].results : ck[j].results[n].status = "alive"

LastOf(s) == s[Len(s)]
AliveCodes == (200..399) \cup {401, 403}

\* C12: checkLink sends HEAD first; it sends GET exactly when HEAD answered 405,
\* and once only; the link is classified on the last response, whose status
\* code is the one reported; a HEAD status other than 405 is final.
C12_HeadThenGet ==
  lib.fn = "checkLink" =>
    /\ lib.probe.stage = "head" => lib.requests = <<>>
    /\ lib.probe.stage = "get" =>
         lib.requests = <<[method |-> "HEAD", outcome |-> Responded(405)]>>
    /\ lib.probe.stage = "done" =>
         /\ Len(lib.requests) \in {1, 2}
         /\ lib.requests[1].method = "HEAD"
         /\ Len(lib.requests) = 2 <=> lib.requests[1].outcome = Responded(405)
         /\ Len(lib.requests) = 2 => lib.requests[2].method = "GET"
         /\ LastOf(lib.requests).outcome.kind = "response" =>
              \A r \in lib.probe.result :
                /\ r.url = lib.url
                /\ r.statusCode = Some(LastOf(lib.requests).outcome.status)
                /\ r.status = (IF LastOf(lib.requests).outcome.status \in AliveCodes
                               THEN "alive" ELSE "dead")

\* HEAD answered 405, and so did GET: no third request, the link is dead with 405.
C12_Witness ==
  /\ lib.fn = "checkLink"
  /\ lib.probe.stage = "done"
  /\ lib.requests = <<[method |-> "HEAD", outcome |-> Responded(405)],
                      [method |-> "GET", outcome |-> Responded(405)]>>
  /\ \E r \in lib.probe.result : r.status = "dead" /\ r.statusCode = Some(405)

\* The LinkResults a job holds: of finished probes, of finished batches, and in
\* its result.
DoneProbes(j) ==
  {r \in UNION {ck[j].batch[n].result : n \in DOMAIN ck[j].batch} : TRUE}
LinkResultsOf(j) ==
  DoneProbes(j) \cup Range(ck[j].results)
  \cup UNION {Range(r.links) : r \in jobs[j].result}

\* C13: a request of a probe that is rejected gives that link a LinkResult with
\* status "error" and the text of the exception; the job does not fail in
\* checkLinks, the other probes of the batch go on, and every link, of this batch
\* and of the later ones, is reported.
C13_ProbeErrorsStayLocal ==
  /\ [](\A j \in Created : \A r \in LinkResultsOf(j) :
          r.status = "error" => r.error = Some(FetchFailed))
  /\ [][\A j \in Created : (pc[j] = "probing" /\ ck'[j] # ck[j]) =>
          /\ jobs'[j].status # "failed"
          /\ pc'[j] = "probing" =>
               /\ ck'[j].i = ck[j].i /\ ck'[j].links = ck[j].links
               /\ ck'[j].results = ck[j].results
               /\ \E n \in DOMAIN ck[j].batch :
                    /\ ck[j].batch[n].stage # "done"
                    /\ \A m \in DOMAIN ck[j].batch \ {n} :
                         ck'[j].batch[m] = ck[j].batch[m]
          /\ pc'[j] = "batchSleep" =>
               /\ ck'[j].links = ck[j].links
               /\ Len(ck'[j].results) = Len(ck[j].results) + Len(ck[j].batch)
               /\ \A n \in DOMAIN ck'[j].results :
                    ck'[j].results[n].url = ck[j].links[n]
          /\ pc'[j] = "done" =>
               /\ jobs'[j].status = "completed"
               /\ \A r \in jobs'[j].result :
                    /\ Len(r.links) = Len(ck[j].links)
                    /\ \A n \in DOMAIN r.links : r.links[n].url = ck[j].links[n]]_vars

\* The first link's probe was rejected; the links of the later batches were
\* probed and the job completed.
C13_Witness ==
  \E j \in Created : \E r \in jobs[j].result :
    /\ BatchSize(j) = 1
    /\ r.linksChecked = 3
    /\ r.links[1].status = "error"
    /\ r.links[2].status = "alive"
    /\ r.links[3].status = "dead"

\* C14: the LinkResult checkLink returns has a statusCode exactly when its
\* status is alive or dead, and an error text exactly when its status is error.
C14_LinkResultShape ==
  (lib.fn = "checkLink" /\ lib.probe.stage = "done") =>
    /\ lib.probe.result # Undefined
    /\ \A r \in lib.probe.result :
         /\ r.status \in {"alive", "dead", "error"}
         /\ r.statusCode # Undefined <=> r.status \in {"alive", "dead"}
         /\ r.error # Undefined <=> r.status = "error"
         /\ r.status = "error" <=> LastOf(lib.requests).outcome.kind = "reject"

\* The GET retry was rejected: a LinkResult with an error text and no statusCode.
C14_Witness ==
  /\ lib.fn = "checkLink"
  /\ Len(lib.requests) = 2
  /\ \E r \in lib.probe.result :
       r.status = "error" /\ r.error = Some("TimeoutError") /\ r.statusCode = Undefined

\* C15: fetchText never throws; it returns null for a response that is not 2xx,
\* for a rejected request and for a body that cannot be read, and the body text
\* otherwise.
C15_FetchTextNeverThrows ==
  lib.fn = "fetchText" =>
    /\ lib.out.kind = "return"
    /\ lib.out.value =
         (IF /\ lib.arg.kind = "response"
             /\ lib.arg.status \in 200..299
             /\ lib.arg.body # Undefined
          THEN lib.arg.body ELSE Null)

\* A 204 answer whose body cannot be read: null, nothing thrown.
C15_Witness ==
  /\ lib.fn = "fetchText"
  /\ lib.arg = FetchResponse(204, Undefined)
  /\ lib.out = Returned(Null)

\* The sitemap URLs discoverFromSitemap has still to fetch, in the order it
\* fetches them, and the page URLs it holds so far.
Remaining(j) == sm[j].pending \o sm[j].cands
Collected(j) ==
  IF pc[j] = "sitemap" THEN Range(sm[j].urls) \cup Range(sm[j].leaf)
  ELSE Range(pj[j].sitemapPages)

\* C16: during sitemap discovery a robots.txt or sitemap document that cannot
\* be fetched, or that holds no entry, contributes no URL and nothing else:
\* the job stays "processing", every URL collected so far is kept, and every
\* other candidate and every sibling child sitemap is still to be fetched; after
\* a robots.txt without answer the two well-known paths are the candidates.
C16_FailuresAreSkipped ==
  [][\A j \in JobIds :
       /\ (j \in Created /\ pc[j] = "sitemap" /\ <<pc[j], sm[j]>>' # <<pc[j], sm[j]>>) =>
            /\ pc'[j] \in {"sitemap", "newContext"}
            /\ jobs'[j].status = "processing"
            /\ Collected(j) \subseteq Collected(j)'
            /\ pc'[j] = "sitemap" =>
                 \E children \in SeqsUpTo(SitemapUrls, MaxPending) :
                    Remaining(j)' = children \o Tail(Remaining(j))
            /\ (pc'[j] = "sitemap" /\ sm'[j].lastNull) =>
                 /\ Remaining(j)' = Tail(Remaining(j))
                 /\ Collected(j)' = Collected(j)
       /\ (j \in Created /\ pc[j] = "robots" /\ pc'[j] # pc[j]) =>
            /\ pc'[j] = "sitemap"
            /\ jobs'[j].status = "processing"
            /\ sm'[j].lastNull =>
                 Remaining(j)' = <<SitemapXmlUrl, SitemapIndexUrl>>
    ]_vars

\* A child sitemap has just failed: the URLs of its sibling are kept and the
\* next candidate is about to be fetched.
C16_Witness ==
  \E j \in Created :
    /\ pc[j] = "sitemap"
    /\ sm[j].lastNull
    /\ Collected(j) # {}
    /\ Remaining(j) # <<>>
    /\ jobs[j].status = "processing"

NoDuplicates(s) == \A a, b \in DOMAIN s : s[a] = s[b] => a = b

\* C17: the candidates of discoverFromSitemap are the Sitemap entries found in
\* robots.txt in their order, then /sitemap.xml and /sitemap_index.xml of the
\* origin, each only if it is not among the entries; they are parsed in that
\* order, and the returned list holds exactly the URLs parseSitemap returned for
\* some candidate, none of them twice.
C17_CandidatesAndUnion ==
  (lib.fn = "discoverFromSitemap" /\ lib.at # "robots") =>
    /\ lib.sitemapUrls =
         lib.robots
         \o SelectSeq(<<SitemapXmlUrl, SitemapIndexUrl>>,
                      LAMBDA u : u \notin Range(lib.robots))
    /\ Len(lib.parsed) <= Len(lib.sitemapUrls)
    /\ \A i \in DOMAIN lib.parsed : lib.parsed[i].url = lib.sitemapUrls[i]
    /\ lib.at = "sitemap" =>
         lib.sm.cands = SubSeq(lib.sitemapUrls, Len(lib.parsed) + 2, Len(lib.sitemapUrls))
    /\ lib.at = "returned" =>
         /\ Len(lib.parsed) = Len(lib.sitemapUrls)
         /\ NoDuplicates(lib.result)
         /\ Range(lib.result) = UNION {Range(lib.parsed[i].links) : i \in DOMAIN lib.parsed}

\* robots.txt names /sitemap.xml itself, and two candidates returned the same
\* page URL.
C17_Witness ==
  /\ lib.fn = "discoverFromSitemap" /\ lib.at = "returned"
  /\ SitemapXmlUrl \in Range(lib.robots)
  /\ Len(lib.sitemapUrls) = 3
  /\ \E i, k \in DOMAIN lib.parsed :
       i # k /\ Range(lib.parsed[i].links) \cap Range(lib.parsed[k].links) # {}
  /\ Len(lib.result) = 2

\* The sitemap graph of a site: an index that is answered points at its entries.
Edges(world, u) ==
  IF IsIndex(world[u]) THEN Range((CHOOSE d \in world[u] : TRUE).sitemapLocs) ELSE {}
RECURSIVE Close(_, _)
Close(world, S) ==
  LET T == S \cup UNION {Edges(world, u) : u \in S}
  IN  IF T = S THEN S ELSE Close(world, T)
\* From u an index can be reached that references itself, directly or not.
CyclicFrom(world, u) ==
  \E v \in Close(world, {u}) : v \in Close(world, Edges(world, v))
Candidate(n) == lib.sitemapUrls[n]

\* C18: parseSitemap never returns for a sitemap from which a cycle of indexes
\* can be reached, so discoverFromSitemap, and with it the job, never ends; for
\* a sitemap from which no cycle can be reached it returns, and what it returns
\* is the concatenation of the entries of the urlsets reached, in the order of
\* the recursion.
C18_CyclesNeverEnd ==
  /\ [](lib.fn = "discoverFromSitemap" =>
          /\ \A i \in DOMAIN lib.parsed :
               /\ ~CyclicFrom(lib.world, lib.parsed[i].url)
               /\ lib.parsed[i].links = parseSitemap(lib.world, lib.parsed[i].url)
          /\ lib.at = "returned" =>
               \A u \in Range(lib.sitemapUrls) : ~CyclicFrom(lib.world, u))
  /\ \A n \in 1..3 :
       (/\ lib.fn = "discoverFromSitemap" /\ lib.at # "robots"
        /\ n <= Len(lib.sitemapUrls)
        /\ \A i \in 1..n : ~CyclicFrom(lib.world, Candidate(i)))
       ~> (lib.fn = "discoverFromSitemap" /\ Len(lib.parsed) >= n)

\* Every sitemap of the site is answered, the candidate being parsed reaches a
\* cycle, and a sitemap that was fetched before is about to be fetched again.
C18_Witness ==
  /\ lib.fn = "discoverFromSitemap" /\ lib.at = "sitemap"
  /\ \A u \in SitemapUrls : lib.world[u] # Null
  /\ CyclicFrom(lib.world, Candidate(Len(lib.parsed) + 1))
  /\ lib.again
  /\ Head(lib.sm.pending) \in lib.fetched

\* The URLs of the <tag><loc> entries of a document, in document order.
LocEntries(xml, tag) ==
  LET entries == SelectSeq(xml, LAMBDA e : e.tag = tag /\ e.first = "loc")
  IN  [i \in DOMAIN entries |-> entries[i].loc.url]

\* C19: extractSitemapUrlsFromXml returns the <sitemap><loc> entries of a
\* document in order as childSitemaps, with urls empty, whenever there is at
\* least one, whatever <url><loc> entries the document has; otherwise it
\* returns childSitemaps empty and the <url><loc> entries in order as urls, be
\* there none or some.
C19_IndexOrUrlset ==
  lib.fn = "extractSitemapUrlsFromXml" =>
    IF LocEntries(lib.arg, "sitemap") # <<>>
    THEN /\ lib.out.childSitemaps = LocEntries(lib.arg, "sitemap")
         /\ lib.out.urls = <<>>
    ELSE /\ lib.out.childSitemaps = <<>>
         /\ lib.out.urls = LocEntries(lib.arg, "url")

\* An index that also has a <url><loc> entry: the entry is ignored.
C19_Witness ==
  /\ lib.fn = "extractSitemapUrlsFromXml"
  /\ LocEntries(lib.arg, "url") # <<>>
  /\ Len(LocEntries(lib.arg, "sitemap")) = 2
  /\ lib.out = [childSitemaps |-> <<PageA, PageB>>, urls |-> <<>>]

\* The URL parts of the Sitemap directives of a robots.txt, in line order: the
\* lines whose directive name is "sitemap" in any case and that name a URL.
DirectiveUrls(robotsTxt) ==
  LET directives == SelectSeq(robotsTxt,
                              LAMBDA l : ToLower(l.name) = "sitemap" /\ l.value # "")
  IN  [i \in DOMAIN directives |-> directives[i].value]

\* C20: extractSitemapUrlsFromRobotsTxt returns the URL part of every line that
\* is a Sitemap directive, whatever the case of the directive name, in the
\* order of the lines, and nothing for any other line.
C20_SitemapDirectives ==
  lib.fn = "extractSitemapUrlsFromRobotsTxt" => lib.out = DirectiveUrls(lib.arg)

\* C21: every URL selectInternalPagesToCrawl returns is http or https, has the
\* root's host, is not the root without its fragment, has no fragment, and is
\* returned once (candidates that differ in the fragment only give one entry);
\* a candidate that does not parse is dropped and nothing is thrown for it.
C21_SelectedAreInternal ==
  (lib.fn = "selectInternalPagesToCrawl" /\ lib.rootUrl # NotAUrl) =>
    /\ lib.out.kind = "return"
    /\ NoDuplicates(lib.out.value)
    /\ \A i \in DOMAIN lib.out.value :
         LET u == lib.out.value[i]
         IN  /\ u.protocol \in {"http:", "https:"}
             /\ u.host = LowerHost(lib.rootUrl.host)
             /\ u.hash = ""
             /\ u # [protocol |-> lib.rootUrl.protocol, host |-> LowerHost(lib.rootUrl.host),
                     path |-> lib.rootUrl.path, hash |-> ""]
             /\ \E k \in DOMAIN lib.candidates :
                  /\ lib.candidates[k] # NotAUrl
                  /\ lib.candidates[k].path = u.path
                  /\ lib.candidates[k].protocol = u.protocol

\* An unparsable candidate, the root with a fragment and two fragment variants
\* of one page: one entry is returned.
C21_Witness ==
  /\ lib.fn = "selectInternalPagesToCrawl"
  /\ lib.rootUrl = UrlString("https:", "SITE.TEST", "/", "#top")
  /\ lib.candidates = <<NotAUrl, UrlString("https:", "site.test", "/", "#a"),
                        UrlString("https:", "site.test", "/posts", "#one")>>
  /\ lib.maxInternalPages = 3
  /\ lib.out = Returned(<<UrlString("https:", "site.test", "/posts", "")>>)

\* C22: selectInternalPagesToCrawl returns at most maxInternalPages entries:
\* the first maxInternalPages entries of what it returns without a cap, and
\* nothing for maxInternalPages <= 0.
C22_FirstMaxPages ==
  (lib.fn = "selectInternalPagesToCrawl" /\ lib.out.kind = "return") =>
    /\ lib.maxInternalPages <= 0 => lib.out.value = <<>>
    /\ lib.maxInternalPages > 0 =>
         /\ Len(lib.out.value) <= lib.maxInternalPages
         /\ lib.out.value =
              SubSeq(lib.uncapped.value, 1,
                     Min(lib.maxInternalPages, Len(lib.uncapped.value)))

\* Three eligible pages and a cap of two.
C22_Witness ==
  /\ lib.fn = "selectInternalPagesToCrawl" /\ lib.out.kind = "return"
  /\ lib.maxInternalPages = 2
  /\ Len(lib.uncapped.value) = 3
  /\ Len(lib.out.value) = 2

\* The internal pages of a crawl: those visited so far besides the root, the
\* one being visited and those still to visit.
InternalPages(j) ==
  Len(cr[j].toVisit)
  + (IF pc[j] \in {"navSleep", "goto", "pause", "title"} /\ ~cr[j].atRoot
     THEN 1 ELSE 0)
  + Cardinality(Range(cr[j].crawledPages) \ {NormalizedHref(jobs[j].url)})

\* C23: besides the root page a crawl navigates to at most maxInternalPages
\* internal pages (to none when maxInternalPages is below 0), and a completed
\* job has pagesCrawled <= 1 + maxInternalPages.
C23_AtMostMaxInternalPages ==
  \A j \in Created :
    /\ pc[j] \in {"navSleep", "goto", "pause", "title", "evaluate", "pageClose",
                  "contextClose"} =>
         InternalPages(j) <= Max(0, jobs[j].options.maxInternalPages)
    /\ jobs[j].status = "completed" =>
         \A r \in jobs[j].result :
           r.pagesCrawled <= 1 + Max(0, jobs[j].options.maxInternalPages)

\* A page the crawler may visit: it parses, is http(s), has the root's host and
\* is not the root.
EligiblePage(u) ==
  /\ CrawlParses(u)
  /\ UrlProtocol(u) \in {"http:", "https:"}
  /\ UrlHost(u) = UrlHost(RootUrl)
  /\ u # RootUrl
EligibleRootLinks == {u \in Range(lib.internalLinks) : EligiblePage(u)}

\* C24: in the visiting order every eligible link of the root page comes before
\* every seed page; a seed page is visited only if fewer than maxInternalPages
\* eligible root-page links precede it, and when a seed is visited every
\* eligible root-page link is visited too.
C24_RootLinksBeforeSeeds ==
  lib.fn = "internalToVisit" =>
    \A i \in DOMAIN lib.out :
      lib.out[i] \notin Range(lib.internalLinks) =>
        /\ \A k \in DOMAIN lib.out : lib.out[k] \in Range(lib.internalLinks) => k < i
        /\ Cardinality(EligibleRootLinks) < lib.maxInternalPages
        /\ EligibleRootLinks \subseteq Range(lib.out)

\* filter((u) => new URL(u).origin === baseUrl), as a sitemap reader sees it
SameOriginPages(j) ==
  SelectSeq(pj[j].sitemapPages,
            LAMBDA u : UrlParses(u) /\ UrlOrigin(u) = UrlOrigin(jobs[j].url))

\* C25: under sitemap discovery the seed pages handed to the crawler are the
\* first maxInternalPages sitemap URLs of the job URL's origin (none when
\* maxInternalPages is below 0), in sitemap order; a sitemap URL of another
\* origin or one that does not parse is never a seed.
C25_SeedsAreFirstSameOrigin ==
  \A j \in Created :
    (pc[j] = "newContext" /\ pj[j].discoveryMethod = "sitemap") =>
      SeedsPassed(j) =
        Some(SubSeq(SameOriginPages(j), 1,
                    Min(Max(0, jobs[j].options.maxInternalPages),
                        Len(SameOriginPages(j)))))

\* C26: a failure of page.goto or of the extraction on an internal page is
\* swallowed: the job stays "processing", nothing is thrown out of the try
\* block, the links and pages collected so far are kept, and the crawl goes on
\* with the next page selected for visiting, or leaves the loop when there is
\* none.
C26_InternalFailuresSwallowed ==
  [][\A j \in JobIds :
       (/\ j \in Created /\ ~cr[j].atRoot
        /\ pc[j] \in {"goto", "pause", "title", "evaluate"}
        /\ pc'[j] # pc[j]) =>
         /\ jobs'[j].status = "processing"
         /\ cr'[j].thrown = Undefined
         /\ Range(cr[j].allLinks) \subseteq Range(cr'[j].allLinks)
         /\ Range(cr[j].crawledPages) \subseteq Range(cr'[j].crawledPages)
         /\ \/ /\ pc'[j] \in {"pause", "title", "evaluate"}
               /\ cr'[j].toVisit = cr[j].toVisit
               /\ cr'[j].current = cr[j].current
            \/ /\ cr[j].toVisit # <<>>
               /\ pc'[j] = "navSleep"
               /\ cr'[j].current = Head(cr[j].toVisit)
               /\ cr'[j].toVisit = Tail(cr[j].toVisit)
            \/ /\ cr[j].toVisit = <<>>
               /\ pc'[j] = "pageClose"
    ]_vars

\* The root page links to PageA, which is visited before the seed PageB;
\* page.goto failed on PageA, which is therefore not among the crawled pages,
\* and PageB is being visited.
C26_Witness ==
  \E j \in Created :
    /\ pc[j] = "goto" /\ ~cr[j].atRoot
    /\ cr[j].current = PageB
    /\ cr[j].crawledPages = <<RootUrl>>
    /\ PageA \in Range(cr[j].allLinks)
    /\ jobs[j].options.maxInternalPages >= 2
    /\ cr[j].thrown = Undefined

\* C27: when page.goto fails on the root page the exception leaves the crawler
\* through its finally block: the only steps left are the closing of the page
\* and of the context, and the job ends "failed"; no internal page has been or
\* will be visited and no link probe is issued.
C27_RootFailureFailsJob ==
  /\ [][\A j \in JobIds :
          (j \in Created /\ pc'[j] # pc[j]) =>
            /\ (pc[j] = "goto" /\ cr[j].atRoot /\ pc'[j] # "pause") =>
                 /\ pc'[j] = "pageClose"
                 /\ cr'[j].thrown = Some("Error: page.goto")
            /\ (pc[j] \in {"pageClose", "contextClose"} /\ cr[j].thrown # Undefined) =>
                 \/ /\ pc[j] = "pageClose" /\ pc'[j] = "contextClose"
                    /\ cr'[j].thrown = cr[j].thrown
                 \/ /\ pc'[j] = "done" /\ jobs'[j].status = "failed"
     ]_vars
  /\ [](\A j \in Created :
          cr[j].thrown # Undefined =>
            /\ pc[j] \in {"pageClose", "contextClose"}
            /\ cr[j].atRoot /\ cr[j].toVisit = <<>>
            /\ Range(cr[j].crawledPages) \subseteq {jobs[j].url}
            /\ ck[j] = NoCk)

\* The root navigation failed, the page and the context were closed, and the
\* job is failed with the navigation's error.
C27_Witness ==
  \E j \in Created :
    /\ jobs[j].status = "failed"
    /\ jobs[j].error = Some("Error: page.goto")
    /\ browser[j] = [context |-> "closed", page |-> "closed"]
    /\ statusLog[j] = <<"pending", "processing", "failed">>

\* C28: every browsing context and page that discoverFromPages opened is closed
\* when it has exited: once the job is past the crawl, or terminal, neither its
\* context nor its page is open.
C28_ContextsAndPagesClosed ==
  \A j \in Created :
    pc[j] \in {"probing", "batchSleep", "done"} =>
      /\ browser[j].context # "open"
      /\ browser[j].page # "open"

\* The navigations of a job that are awaiting their answer.
NavigationsInFlight(j) == IF pc[j] = "goto" THEN {cr[j].current} ELSE {}

\* C29: a job has at most one navigation in flight; a navigation to an internal
\* page starts only when a wait has elapsed, and that wait is of
\* navigationDelayMs plus a jitter of 0..navigationJitterMs and starts only
\* when the extraction of the previous page has ended or its navigation or
\* extraction has failed.
C29_OneNavigationAfterWait ==
  /\ [](\A j \in Created : Cardinality(NavigationsInFlight(j)) <= 1)
  /\ [][\A j \in JobIds :
          (j \in Created /\ pc'[j] # pc[j]) =>
            /\ (pc'[j] = "goto" /\ ~cr'[j].atRoot) =>
                 /\ pc[j] = "navSleep"
                 /\ timer[j] # Undefined
                 /\ cr'[j].current = cr[j].current
            /\ pc'[j] = "navSleep" =>
                 /\ pc[j] \in {"goto", "evaluate"}
                 /\ cr[j].atRoot => pc[j] = "evaluate"
                 /\ ~cr[j].atRoot => cr'[j].current = Head(cr[j].toVisit)
                 /\ \E x \in 0..Max(0, jobs[j].options.navigationJitterMs) :
                      timer'[j] = Some(jobs[j].options.navigationDelayMs + x)
     ]_vars

\* The wait of 3 ms + jitter before PageA is over and PageA is being loaded.
C29_Witness ==
  \E j \in Created :
    /\ pc[j] = "goto" /\ ~cr[j].atRoot
    /\ cr[j].current = PageA
    /\ cr[j].crawledPages = <<RootUrl>>
    /\ jobs[j].options.navigationDelayMs = 3

\* The documented defaults.
DocumentedDefaults ==
  [followInternalLinks |-> TRUE, maxInternalPages |-> 10, maxLinksToCheck |-> 500,
   linkCheckConcurrency |-> 3, linkBatchDelayMs |-> 600, linkBatchJitterMs |-> 400,
   navigationDelayMs |-> 800, navigationJitterMs |-> 500]

\* C30: normalizeOptions without argument returns the documented defaults; a
\* field that is given overrides its default and every other field keeps its
\* default; normalizing the result again returns the same; the argument and the
\* defaults are as they were before the call.
C30_NormalizeOptions ==
  lib.fn = "normalizeOptions" =>
    /\ lib.arg = Undefined => lib.out = DocumentedDefaults
    /\ \A o \in lib.arg :
         /\ DOMAIN lib.out = DOMAIN o \cup DOMAIN DocumentedDefaults
         /\ \A k \in DOMAIN o : lib.out[k] = o[k]
         /\ \A k \in DOMAIN DocumentedDefaults \ DOMAIN o :
              lib.out[k] = DocumentedDefaults[k]
    /\ lib.again = lib.out
    /\ lib.argAfter = lib.arg
    /\ lib.defaultsAfter = DocumentedDefaults

\* Two fields given: both override, the others keep their defaults.
C30_Witness ==
  /\ lib.fn = "normalizeOptions"
  /\ lib.arg = Some([followInternalLinks |-> FALSE, maxInternalPages |-> 3])
  /\ lib.out = [followInternalLinks |-> FALSE, maxInternalPages |-> 3,
                maxLinksToCheck |-> 500, linkCheckConcurrency |-> 3,
                linkBatchDelayMs |-> 600, linkBatchJitterMs |-> 400,
                navigationDelayMs |-> 800, navigationJitterMs |-> 500]
  /\ lib.again = lib.out

\* A value other than null and undefined.
HasValue(v) == ToString(v) # ToString(Null)

\* C31: for every options object createJob accepts, a field given without a
\* value included, each of the eight fields of the job's normalized options is
\* present with a value.
C31_EveryFieldPresent ==
  lib.fn = "createJob" =>
    \A k \in DOMAIN DocumentedDefaults :
      /\ k \in DOMAIN lib.options
      /\ HasValue(lib.options[k])

\* C32: jitter(max) is 0 for every max <= 0 and an integer of 0..max for every
\* max > 0, so a delay base + jitter(max) lies in base..(base + max(0, max)).
C32_JitterRange ==
  lib.fn = "jitter" =>
    /\ lib.maxMs <= 0 => lib.out = 0
    /\ lib.maxMs > 0 => lib.out \in 0..lib.maxMs
    /\ lib.delay \in lib.base..(lib.base + Max(0, lib.maxMs))

\* The largest jitter is drawn and added to a delay.
C32_Witness ==
  /\ lib.fn = "jitter"
  /\ lib.maxMs > 0 /\ lib.out = lib.maxMs
  /\ lib.base = 600 /\ lib.delay = 600 + lib.maxMs

\* C33: a submission without a url is answered 400 and nothing else happens:
\* no job is created, none is stored and no processing starts; a job that is
\* created or stored has a url and is answered 202.
C33_UrlRequired ==
  [][ /\ (\E r \in responses' \ responses : r.code = 400) =>
           UNCHANGED <<jobs, store, notified, statusLog, pc, sm, pj, cr, ck, timer, browser>>
      /\ \A id \in (DOMAIN jobs' \ DOMAIN jobs) \cup (DOMAIN store' \ DOMAIN store)
                    \cup (DOMAIN pc' \ DOMAIN pc) :
           /\ id \in DOMAIN jobs' /\ jobs'[id].url # ""
           /\ id \in DOMAIN store' => store'[id].url # ""
           /\ \E r \in responses' \ responses : r.code = 202 /\ r.id = id ]_vars

\* A submission without url has been answered and there is no job.
C33_Witness ==
  /\ \E r \in responses : r.code = 400 /\ r.error = "url is required"
  /\ \A r \in responses : r.code = 400
  /\ Created = {} /\ DOMAIN store = {} /\ DOMAIN pc = {}

\* The absolute links one page can have, as the Set allLinks lists them.
OnePageLinks == {AddAll(<<>>, content.absoluteLinks) : content \in PageContents}

\* C34: with followInternalLinks false only the root page is navigated to: no
\* internal page and no seed page is visited, no navigation delay is taken,
\* the links checked are the root page's absolute links, capped, and a
\* completed job has pagesCrawled 1.
C34_RootPageOnly ==
  \A j \in Created :
    jobs[j].options.followInternalLinks = FALSE =>
      /\ pc[j] # "navSleep"
      /\ cr[j].toVisit = <<>>
      /\ pc[j] \in {"goto", "pause", "title", "evaluate"} =>
           cr[j].atRoot /\ cr[j].current = jobs[j].url
      /\ Range(cr[j].crawledPages) \subseteq {NormalizedHref(jobs[j].url)}
      /\ cr[j].allLinks \in OnePageLinks
      /\ \E links \in OnePageLinks :
           ck[j].links = CapLinks(links, jobs[j].options.maxLinksToCheck)
      /\ \A r \in jobs[j].result :
           /\ r.pagesCrawled = 1
           /\ r.pagesCrawledUrls = <<NormalizedHref(jobs[j].url)>>
           /\ \E links \in OnePageLinks :
                [i \in DOMAIN r.links |-> r.links[i].url]
                  = CapLinks(links, jobs[j].options.maxLinksToCheck)

\* Completed under sitemap discovery with followInternalLinks false: one page
\* crawled, the two links of the root page checked.
C34_Witness ==
  \E j \in Created :
    /\ jobs[j].options.followInternalLinks = FALSE
    /\ jobs[j].status = "completed"
    /\ \E r \in jobs[j].result :
         /\ r.discoveryMethod = "sitemap"
         /\ r.pagesCrawled = 1
         /\ [i \in DOMAIN r.links |-> r.links[i].url] = <<PageA, Ext1>>

\* The URLs of a list of LinkResults.
ResultUrls(results) == [i \in DOMAIN results |-> results[i].url]

\* C35: checkLinks returns one LinkResult per input URL, in input order,
\* whatever the order in which the probes of a batch complete: while it runs,
\* the results are those of the links before the current batch, and what it
\* returns has results[i].url = links[i] and the length of the input.
C35_OneResultPerLinkInOrder ==
  [][ \A j \in Created :
        /\ pc'[j] \in {"probing", "batchSleep"} =>
             /\ Len(ck'[j].results) <= Len(ck'[j].links)
             /\ ResultUrls(ck'[j].results) = SliceTo(ck'[j].links, Len(ck'[j].results))
             /\ pc'[j] = "probing" => Len(ck'[j].results) = ck'[j].i
        /\ (pc[j] \in {"probing", "batchSleep"} /\ pc'[j] = "done"
              /\ jobs'[j].status = "completed") =>
             \A r \in jobs'[j].result :
               /\ ResultUrls(r.links) = ck[j].links
               /\ r.linksChecked = Len(ck[j].links) ]_vars

\* The second probe of a batch of two has completed before the first.
C35_Witness ==
  \E j \in Created :
    /\ pc[j] = "probing"
    /\ Len(ck[j].batch) = 2
    /\ ck[j].batch[1].stage # "done" /\ ck[j].batch[2].stage = "done"
    /\ Len(ck[j].links) = 3

\* The phase a position of processJob belongs to: 1 sitemap discovery, 2 the
\* crawl, 3 the link checks, 4 finished.
PhaseOf(p) ==
  IF p \in {"robots", "sitemap"} THEN 1
  ELSE IF p \in {"probing", "batchSleep"} THEN 3
  ELSE IF p = "done" THEN 4
  ELSE 2

\* The probes of the running batch that have not completed.
ProbesInFlight(j) == {n \in DOMAIN ck[j].batch : ck[j].batch[n].stage # "done"}

\* C36: the phases of one job are strictly ordered.  The crawl starts only
\* when sitemap discovery has returned (no sitemap request is pending); a link
\* probe is issued only when the crawl has returned with its page and context
\* closed; the result is written only when the last probe of the last batch
\* has completed; and a job never goes back to an earlier phase.
C36_PhasesInOrder ==
  [][ \A j \in Created :
        /\ PhaseOf(pc'[j]) >= PhaseOf(pc[j])
        /\ PhaseOf(pc'[j]) = 2 =>
             /\ PhaseOf(pc[j]) = 2 \/ pc[j] = "sitemap"
             /\ sm'[j].pending = <<>> /\ ck'[j].batch = <<>>
        /\ PhaseOf(pc'[j]) = 3 =>
             /\ PhaseOf(pc[j]) = 3 \/ pc[j] = "contextClose"
             /\ browser'[j] = [context |-> "closed", page |-> "closed"]
             /\ sm'[j].pending = <<>> /\ cr'[j] = NoCr
        /\ PhaseOf(pc[j]) < 3 => ck'[j].results = <<>>
        /\ (jobs[j].result = Undefined /\ jobs'[j].result # Undefined) =>
             /\ \/ pc[j] = "probing" /\ Cardinality(ProbesInFlight(j)) = 1
                      /\ ~MoreBatches(ck[j].links, ck[j].i, Concurrency(jobs[j].options))
                \/ pc[j] = "contextClose" /\ cr[j].allLinks = <<>>
                \/ pc[j] = "contextClose" /\ jobs[j].options.maxLinksToCheck <= 0
             /\ browser'[j] = [context |-> "closed", page |-> "closed"]
             /\ ck'[j].batch = <<>> ]_vars

\* A job has gone through the three phases: sitemap discovery found pages, two
\* pages were crawled, three links were checked in two batches.
C36_Witness ==
  \E j \in Created :
    /\ jobs[j].status = "completed"
    /\ statusLog[j] = <<"pending", "processing", "completed">>
    /\ \E r \in jobs[j].result :
         /\ r.discoveryMethod = "sitemap"
         /\ r.pagesCrawled = 2
         /\ r.linksChecked = 3
    /\ Concurrency(jobs[j].options) = 2

\* C37: wherever another task can observe a job, completedAt is set exactly
\* when the status is completed or failed, result exactly when it is
\* completed, and error exactly when it is failed.
C37_ObservedConsistent ==
  \A j \in Created :
    /\ jobs[j].completedAt # Undefined <=> jobs[j].status \in {"completed", "failed"}
    /\ jobs[j].result # Undefined <=> jobs[j].status = "completed"
    /\ jobs[j].error # Undefined <=> jobs[j].status = "failed"

\* A job that failed while it was crawling: error and completedAt, no result.
C37_Witness ==
  \E j \in Created :
    /\ statusLog[j] = <<"pending", "processing", "failed">>
    /\ jobs[j].status = "failed"
    /\ jobs[j].error = Some("Error: page.goto")
    /\ jobs[j].completedAt # Undefined
    /\ jobs[j].result = Undefined

\* What belongs to one job: its record in the job map and the locals of its
\* processJob call.
OwnedBy(j) ==
  <<jobs[j], statusLog[j], pc[j], sm[j], pj[j], cr[j], ck[j], timer[j], browser[j]>>

\* C38: jobs processed at the same time do not interfere.  Under every
\* interleaving of the two jobs' steps, a step that creates or advances one
\* job leaves the record (status, options, result, error, timestamps) and the
\* locals of every other job as they were, and a job once created stays in
\* the job map.
C38_JobsDoNotInterfere ==
  [][ /\ DOMAIN jobs \subseteq DOMAIN jobs'
      /\ \A a \in DOMAIN jobs' :
           (a \notin DOMAIN jobs \/ OwnedBy(a)' # OwnedBy(a)) =>
             \A b \in DOMAIN jobs \ {a} :
               /\ jobs'[b] = jobs[b]
               /\ OwnedBy(b)' = OwnedBy(b) ]_vars

\* The first job has completed while the second is still checking its links.
C38_Witness ==
  /\ Created = PairIds
  /\ jobs["job-1"].status = "completed"
  /\ jobs["job-1"].result # Undefined
  /\ jobs["job-2"].status = "processing"
  /\ pc["job-2"] = "probing"
  /\ jobs["job-2"].options # jobs["job-1"].options

\* C39: the list of links a job checks holds no URL twice, even when a link
\* appears on several crawled pages, so each discovered URL is probed once;
\* every checked URL is http or https and has no fragment.
C39_LinksCheckedOnce ==
  lib.fn = "allLinks" =>
    /\ NoDuplicates(lib.links)
    /\ NoDuplicates(lib.allLinks)
    /\ \A i \in DOMAIN lib.links :
         /\ lib.links[i].protocol \in {"http:", "https:"}
         /\ lib.links[i].hash = ""

\* Both pages link to the same two URLs, once with and once without fragment:
\* two links are checked.
C39_Witness ==
  /\ lib.fn = "allLinks"
  /\ lib.anchors = << <<Href("https:", "ext.test", "/x", ""), Href("", "", "/a", "#top")>>,
                       <<Href("https:", "ext.test", "/x", "#frag"), Href("", "", "/a", "")>> >>
  /\ lib.maxLinksToCheck = 500
  /\ lib.links = <<UrlString("https:", "ext.test", "/x", ""),
                    UrlString("https:", "site.test", "/a", "")>>

\* The pages of a crawl in the order visited, and those among them whose
\* navigation succeeded, without fragment.
PagesVisited == <<lib.rootUrl>> \o lib.internalToVisit
WithoutFragment(url) == [url EXCEPT !.hash = "", !.host = LowerHost(url.host)]
NavigatedPages ==
  {WithoutFragment(PagesVisited[i]) :
     i \in {n \in DOMAIN PagesVisited : lib.outcomes[n] # "page.goto"}}

\* C40: pagesCrawledUrls of a completed job lists exactly the pages whose
\* navigation succeeded, each once and without fragment: the root page is in
\* it, an internal page whose navigation failed is not, and pagesCrawled is
\* its length.
C40_PagesCrawledUrls ==
  lib.fn = "discoverFromPages" =>
    /\ lib.result # Undefined <=> lib.outcomes[1] = "ok"
    /\ \A r \in lib.result :
         /\ Range(r.pagesCrawledUrls) = NavigatedPages
         /\ NoDuplicates(r.pagesCrawledUrls)
         /\ \A i \in DOMAIN r.pagesCrawledUrls : r.pagesCrawledUrls[i].hash = ""
         /\ r.pagesCrawledUrls[1] = WithoutFragment(lib.rootUrl)
         /\ \A n \in DOMAIN lib.internalToVisit :
              (\A m \in DOMAIN PagesVisited :
                 WithoutFragment(PagesVisited[m]) = WithoutFragment(lib.internalToVisit[n])
                   => lib.outcomes[m] = "page.goto")
                => WithoutFragment(lib.internalToVisit[n]) \notin Range(r.pagesCrawledUrls)
         /\ r.pagesCrawled = Len(r.pagesCrawledUrls)

\* The root page has a fragment, the navigation to the first internal page
\* fails and page.evaluate fails on the second: two pages are reported.
C40_Witness ==
  /\ lib.fn = "discoverFromPages"
  /\ lib.rootUrl = UrlString("https:", "site.test", "/", "#top")
  /\ lib.internalToVisit = <<InternalPage, UrlString("https:", "SITE.TEST", "/b", "")>>
  /\ lib.outcomes = <<"ok", "page.goto", "page.evaluate">>
  /\ \E r \in lib.result :
       /\ r.pagesCrawled = 2
       /\ r.pagesCrawledUrls = <<RootPage, UrlString("https:", "site.test", "/b", "")>>
====
